---- MODULE Spec2Model ----
(***************************************************************************)
(* A model of youtube-to-mp3's download pipeline and cover cache           *)
(* (pipeline.py), the downloader's fetch+tag step (downloader.py), the     *)
(* cover resolution cascade and album name matcher                         *)
(* (album_cover_retriever.py) and metadata cleaning (metadata.py).         *)
(*                                                                         *)
(* Conventions.  A Python str is a sequence of one-character strings, so   *)
(* that lower() and strip() are computed and not assumed.  An Optional     *)
(* value is a tuple of length 0 (None) or 1 (the value).  Image bytes are  *)
(* modelled by their length.  The remote services (catalogs, image hosts,  *)
(* the media fetcher, the tag writer) are nondeterministic: each action    *)
(* draws their behaviour from the sets defined below.                      *)
(***************************************************************************)
EXTENDS Integers, Sequences, FiniteSets, TLC

VARIABLES
    pc,                 \* where DownloadPipeline.download is
    jobs,               \* the batch: a sequence of DownloadJob
    progress_callback,  \* whether download was given a progress callback
    cover_cache,        \* AlbumCoverCache._cache: key -> CoverResult
    unique_albums,      \* _pre_cache_album_covers: the pairs still to resolve
    index,              \* _run_download: the 1-based position in the batch
    outcomes,           \* _run_download: the DownloadOutcome list
    events,             \* what the progress callback has been called with
    cascade_log,        \* every retrieve_cover invocation of this run
    fetch_log,          \* what the fetch step of each attempted job did
    direct_call,        \* a direct retrieve_cover call: metadata and outcome
    tracks,             \* create_download_jobs: its input tracks
    existing_files,     \* create_download_jobs: file names already on disk
    created,            \* create_download_jobs: what the call produced
    cache_calls,        \* the set_cover / clear calls made on the cache
    match_call,         \* a direct AlbumMatcher call: arguments and results
    clean_call,         \* a direct MetadataCleaner.clean_track call
    review,             \* the metadata review screen: tracks and open modal
    adapter_call,       \* a direct call of a catalog adapter and its result
    download_call,      \* a direct _download_cover_data call and its result
    limiter,            \* the downloader's rate limiter, the clock and its log
    progress_screen     \* the download progress screen: counter and log

vars == <<pc, jobs, progress_callback, cover_cache, unique_albums, index,
          outcomes, events, cascade_log, fetch_log, direct_call, tracks,
          existing_files, created, cache_calls, match_call, clean_call, review,
          adapter_call,
          download_call, limiter, progress_screen>>

\* the state of DownloadPipeline.download
pipelineVars == <<pc, jobs, progress_callback, cover_cache, unique_albums,
                  index, outcomes, events, cascade_log, fetch_log>>

\* the state download leaves alone
otherVars == <<direct_call, tracks, existing_files, created, cache_calls,
               match_call, clean_call, review, adapter_call,
               download_call, limiter, progress_screen>>

\* the state the direct calls of the other components leave alone
componentVars == <<cache_calls, match_call, clean_call, review, adapter_call,
                   download_call, limiter, progress_screen>>

----------------------------------------------------------------------------
(* Bounds of the model *)

\* the largest batch handed to download / create_download_jobs
MaxJobs == 2

----------------------------------------------------------------------------
(* Optional values and Python truthiness *)

None == <<>>

Some(x) == <<x>>

\* truthiness of an Optional[str] whose str is a character sequence
Truthy(opt) == opt # None /\ opt[1] # <<>>

\* truthiness of an Optional[str] whose str is an opaque token (a URL)
TruthyUrl(opt) == opt # None /\ opt[1] # ""

\* a mutant of TruthyBytes: "is not None" in place of truthiness
BytesNotNone(opt) == opt # None

\* truthiness of Optional[bytes]; bytes are modelled by their length
TruthyBytes(opt) == opt # None /\ opt[1] > 0

----------------------------------------------------------------------------
(* str.lower() and str.strip() on character sequences *)

LowerChar(c) ==
    CASE c = "A" -> "a"
      [] c = "B" -> "b"
      [] c = "C" -> "c"
      [] OTHER -> c

Lower(s) == [i \in 1..Len(s) |-> LowerChar(s[i])]

RECURSIVE LStrip(_)
LStrip(s) == IF s # <<>> /\ Head(s) = " " THEN LStrip(Tail(s)) ELSE s

RECURSIVE RStrip(_)
RStrip(s) ==
    IF s # <<>> /\ s[Len(s)] = " " THEN RStrip(SubSeq(s, 1, Len(s) - 1)) ELSE s

Strip(s) == RStrip(LStrip(s))

----------------------------------------------------------------------------
(* CoverResult (album_cover_retriever.py); release_info is not modelled *)

CoverResult(success, cover_url, cover_data, source, confidence, error) ==
    [success |-> success, cover_url |-> cover_url, cover_data |-> cover_data,
     source |-> source, album_match_confidence |-> confidence, error |-> error]

\* CoverResult(success=False, error=..., album_match_confidence=...)
CoverFailure(error, confidence) ==
    CoverResult(FALSE, None, None, None, confidence, Some(error))

----------------------------------------------------------------------------
(* Cover download validation: AlbumCoverRetriever._download_cover_data *)

MAX_COVER_FILE_SIZE == 10485760

\* A Content-Length header: int() of one that is no number raises ValueError
Header(numeric, value) == [numeric |-> numeric, value |-> value]

\* What requests.get can do: raise (exc names the exception), or answer with a
\* status, an optional Content-Type, an optional Content-Length and a body
HttpResponses ==
    [exc : {"Timeout", "ConnectionError", "Other"}, status : {0},
     content_type : {None}, content_length : {None}, body : {0}]
    \cup
    [exc : {""}, status : {200, 404, 500},
     content_type : {None, Some("image/jpeg"), Some("Image/PNG"), Some("text/html")},
     content_length : {None, Some(Header(TRUE, 1)),
                       Some(Header(TRUE, MAX_COVER_FILE_SIZE + 1)),
                       Some(Header(FALSE, 0))},
     body : {0, 1, MAX_COVER_FILE_SIZE + 1}]

\* response.headers.get('content-type', '').lower()
ContentTypeLower(content_type) ==
    IF content_type = None THEN ""
    ELSE IF content_type[1] = "Image/PNG" THEN "image/png"
    ELSE content_type[1]

\* a mutant of StartsWithImage: every content type passes
AnyContentType(content_type) == TRUE

\* str.startswith('image/')
StartsWithImage(content_type) == content_type \in {"image/jpeg", "image/png"}

\* a mutant of IsHttpError: raise_for_status never raises
NoHttpError(status) == FALSE

\* response.raise_for_status() raises HTTPError
IsHttpError(status) == status >= 400 /\ status < 600

DownloadReturned(data) == [raised |-> FALSE, data |-> data]

DownloadRaised == [raised |-> TRUE, data |-> None]

\* The result of one download: the bytes (by length), None, or an exception
\* that leaves the function (only the re-raised non-404 HTTPError does)
download_cover_data(resp) ==
    IF resp.exc \in {"Timeout", "ConnectionError", "Other"} THEN DownloadReturned(None)
    ELSE IF IsHttpError(resp.status)
    THEN IF resp.status = 404 THEN DownloadReturned(None) ELSE DownloadRaised
    ELSE IF ~StartsWithImage(ContentTypeLower(resp.content_type))
    THEN DownloadReturned(None)
    ELSE IF resp.content_length # None /\ ~resp.content_length[1].numeric
    THEN DownloadReturned(None)
    ELSE IF resp.content_length # None
            /\ resp.content_length[1].value > MAX_COVER_FILE_SIZE
    THEN DownloadReturned(None)
    ELSE IF resp.body > MAX_COVER_FILE_SIZE THEN DownloadReturned(None)
    ELSE DownloadReturned(Some(resp.body))

\* Everything a download can end in, over every behaviour of the image host
DownloadOutcomes == {download_cover_data(resp) : resp \in HttpResponses}

----------------------------------------------------------------------------
(* The catalog adapters, seen from the cascade.  Each returns a CoverResult *)
(* and never raises (their bodies are wrapped in try/except); what the      *)
(* catalogs answer is nondeterministic.                                     *)

\* the confidences the modelled catalogs give an album match: one the album
\* name matcher gives, and the adapter's own fallback tag
MusicBrainzConfidences == {"exact", "recording_match"}

ITunesConfidences == {"exact", "artist_match_only"}

AdapterFailure(error) == CoverResult(FALSE, None, None, None, "unknown", error)

AdapterSuccess(cover_url, confidence) ==
    CoverResult(TRUE, Some(cover_url), None, None, confidence, None)

\* MusicBrainzRetriever.retrieve_cover: direct and fuzzy album search, then
\* recording search; a success always carries a non-empty artwork URL
MusicBrainz_retrieve_cover(metadata) ==
    {AdapterFailure(Some("No cover found via MusicBrainz"))}
    \cup {AdapterSuccess("https://coverartarchive.org/front.jpg", c) :
            c \in MusicBrainzConfidences}

\* MusicBrainzRetriever.retrieve_cover_for_recording
MusicBrainz_retrieve_cover_for_recording(metadata) ==
    {AdapterFailure(Some("No cover found via recording search")),
     AdapterSuccess("https://coverartarchive.org/front.jpg", "recording_match")}

\* ITunesRetriever.retrieve_cover: _get_best_cover_url returns '' for a result
\* without an artworkUrl100 field
ITunes_retrieve_cover(metadata) ==
    {AdapterFailure(Some("No cover found via iTunes"))}
    \cup {AdapterSuccess(u, c) :
            u \in {"", "https://itunes.example/600x600.jpg"},
            c \in ITunesConfidences}

\* ITunesRetriever.retrieve_cover_for_track
ITunes_retrieve_cover_for_track(metadata) ==
    {AdapterFailure(None)}
    \cup {AdapterSuccess(u, "track_only") :
            u \in {"", "https://itunes.example/600x600.jpg"}}

----------------------------------------------------------------------------
(* The cover resolution cascade: AlbumCoverRetriever.retrieve_cover.        *)
(* One invocation ends in a record: whether an exception left the call, the *)
(* CoverResult it returned, and the catalog adapter calls it made, in order.*)
(* hint_download is what downloading the authoritative hint gives, if the   *)
(* cascade downloads it; the catalogs and the downloads of their artwork    *)
(* are nondeterministic, so the operators give the set of possible ends.    *)

CascadeReturn(result, adapters) ==
    [raised |-> FALSE, result |-> Some(result), adapters |-> adapters]

CascadeRaise(adapters) ==
    [raised |-> TRUE, result |-> None, adapters |-> adapters]

\* One "result.success and result.cover_url -> download -> return" block of
\* the cascade, inside a try: the set of ways it ends, where `otherwise` is
\* what the code goes on to when the block does not return
TryAdapter(adapter_results, source, adapters, error, otherwise) ==
    UNION {
        IF r.success /\ TruthyUrl(r.cover_url)
        THEN UNION {
                IF d.raised
                THEN {CascadeReturn(CoverFailure(error, "error"), adapters)}
                ELSE IF TruthyBytes(d.data)
                THEN {CascadeReturn(
                        CoverResult(TRUE, r.cover_url, d.data, Some(source),
                                    r.album_match_confidence, None),
                        adapters)}
                ELSE otherwise
                : d \in DownloadOutcomes }
        ELSE otherwise
        : r \in adapter_results }

\* _retrieve_cover_without_album
retrieve_cover_without_album(metadata) ==
    IF metadata.title = <<>>
    THEN {CascadeReturn(CoverFailure("No track title provided", "none"), <<>>)}
    ELSE LET err == "Unexpected error during track-only cover retrieval"
             mb == <<"musicbrainz.retrieve_cover_for_recording">>
             it == Append(mb, "itunes.retrieve_cover_for_track")
         IN  TryAdapter(MusicBrainz_retrieve_cover_for_recording(metadata),
                        "musicbrainz", mb, err,
                TryAdapter(ITunes_retrieve_cover_for_track(metadata),
                           "itunes", it, err,
                    {CascadeReturn(
                        CoverFailure("No cover found for track-only search", "none"),
                        it)}))

\* retrieve_cover after Strategy 0: artist check, album check, then
\* MusicBrainz and iTunes inside the try block
retrieve_cover_from_catalogs(metadata) ==
    IF metadata.artist = <<>>
    THEN {CascadeReturn(CoverFailure("No artist name provided", "none"), <<>>)}
    ELSE IF ~Truthy(metadata.album)
    THEN retrieve_cover_without_album(metadata)
    ELSE LET err == "Unexpected error during cover retrieval"
             mb == <<"musicbrainz.retrieve_cover">>
             it == Append(mb, "itunes.retrieve_cover")
         IN  TryAdapter(MusicBrainz_retrieve_cover(metadata),
                        "musicbrainz", mb, err,
                TryAdapter(ITunes_retrieve_cover(metadata),
                           "itunes", it, err,
                    {CascadeReturn(
                        CoverFailure("No album cover found from MusicBrainz or iTunes",
                                     "none"),
                        it)}))

\* a mutant of retrieve_cover: Strategy 0 left out
retrieve_cover_without_hint(metadata, hint_download) ==
    retrieve_cover_from_catalogs(metadata)

\* retrieve_cover.  Strategy 0, the platform-supplied cover, is outside any
\* try block: an exception of its download leaves retrieve_cover
retrieve_cover(metadata, hint_download) ==
    IF TruthyUrl(metadata.youtube_album_cover_url)
    THEN IF hint_download.raised THEN {CascadeRaise(<<>>)}
         ELSE IF TruthyBytes(hint_download.data)
         THEN {CascadeReturn(
                CoverResult(TRUE, metadata.youtube_album_cover_url,
                            hint_download.data, Some("youtube"), "exact", None),
                <<>>)}
         ELSE retrieve_cover_from_catalogs(metadata)
    ELSE retrieve_cover_from_catalogs(metadata)

----------------------------------------------------------------------------
(* AlbumCoverCache (pipeline.py) *)

\* key = f"{artist}|{album}".lower().strip()
cache_key(artist, album) == Strip(Lower(artist \o <<"|">> \o album))

\* a cache that never answers
get_cover_miss(cache, artist, album) == None

\* AlbumCoverCache.get_cover: None on a miss
get_cover(cache, artist, album) ==
    IF cache_key(artist, album) \in DOMAIN cache
    THEN Some(cache[cache_key(artist, album)])
    ELSE None

\* AlbumCoverCache.set_cover
set_cover(cache, artist, album, cover_result) ==
    [k \in DOMAIN cache \cup {cache_key(artist, album)} |->
        IF k = cache_key(artist, album) THEN cover_result ELSE cache[k]]

\* AlbumCoverCache(): the empty dict
EmptyCache == [k \in {} |-> None]

----------------------------------------------------------------------------
(* TrackMetadata and DownloadJob, as far as download reads them *)

\* TrackMetadata: the fields the pipeline, the downloader and the cascade
\* read; album, youtube_album_cover_url and source_url are Optional
TrackMetadata(title, artist, album, youtube_album_cover_url, source_url, selected) ==
    [title |-> title, artist |-> artist, album |-> album,
     youtube_album_cover_url |-> youtube_album_cover_url,
     source_url |-> source_url, selected |-> selected]

\* DownloadJob(url, metadata, output_path): status "pending", error None
DownloadJob(url, metadata, output_path) ==
    [url |-> url, metadata |-> metadata, output_path |-> output_path,
     status |-> "pending", error |-> None]

\* "metadata.artist and metadata.album"
HasArtistAndAlbum(metadata) == metadata.artist # <<>> /\ Truthy(metadata.album)

UnknownTitle == <<"U", "n", "k", "n", "o", "w", "n", " ", "T", "i", "t", "l", "e">>

----------------------------------------------------------------------------
(* DownloadPipeline._pre_cache_album_covers: the collection loop *)

\* key = (metadata.artist, metadata.album)
unique_key(metadata) == <<metadata.artist, metadata.album[1]>>

\* a mutant of the collection loop: no pair is collected for the pre-warm
collect_nothing(batch, cache, i, acc) == <<>>

\* The loop over the jobs: a pair is added when both fields are set, the raw
\* pair is not yet collected and the cache holds nothing for it; the dict
\* keeps insertion order and the hint of the first job of the pair
RECURSIVE collect_unique_albums(_, _, _, _)
collect_unique_albums(batch, cache, i, acc) ==
    IF i > Len(batch) THEN acc
    ELSE LET metadata == batch[i].metadata
             add == /\ HasArtistAndAlbum(metadata)
                    /\ ~\E e \in 1..Len(acc) : acc[e].key = unique_key(metadata)
                    /\ get_cover(cache, metadata.artist, metadata.album[1]) = None
         IN  collect_unique_albums(batch, cache, i + 1,
                IF add
                THEN Append(acc, [key |-> unique_key(metadata),
                                  yt_cover_url |-> metadata.youtube_album_cover_url])
                ELSE acc)

----------------------------------------------------------------------------
(* AudioDownloader.download_track_with_cache (downloader.py).  The fetcher  *)
(* and the tag writer are nondeterministic, so each operator gives the set  *)
(* of ways the call can end.                                                *)

\* what the fetch step (rate limiter, mkdir, yt-dlp) can do: succeed (None),
\* or raise an exception with this message
FetchOutcomes == {None, Some("ERROR: unable to download video")}

EmbedResult(cover_result, cache, cascade) ==
    [cover_result |-> cover_result, cache |-> cache, cascade |-> cascade]

\* the except branch of _embed_album_cover_with_cache
EmbeddingFailed == CoverFailure("Cover embedding failed", "error")

\* _embed_album_cover_with_cache from "if cover_result.success and
\* cover_result.cover_data": adding the APIC frame may raise
embed_apic(cover_result, cache, cascade) ==
    IF cover_result.success /\ TruthyBytes(cover_result.cover_data)
    THEN {EmbedResult(cover_result, cache, cascade),
          EmbedResult(EmbeddingFailed, cache, cascade)}
    ELSE {EmbedResult(cover_result, cache, cascade)}

\* a mutant of _embed_album_cover_with_cache: no cascade on a cache miss
embed_album_cover_from_cache_only(metadata, cache) ==
    {EmbedResult(CoverFailure("No cover in cache", "none"), cache, None)}

\* _embed_album_cover_with_cache: the cover result, the cache afterwards and
\* the retrieve_cover invocation made (None when the cache answered)
embed_album_cover_with_cache(metadata, cache) ==
    LET cached == IF HasArtistAndAlbum(metadata)
                  THEN get_cover(cache, metadata.artist, metadata.album[1])
                  ELSE None
    IN  IF cached # None
        THEN embed_apic(cached[1], cache, None)
        ELSE UNION {
                IF c.raised
                THEN {EmbedResult(EmbeddingFailed, cache, Some(c))}
                ELSE embed_apic(
                        c.result[1],
                        IF HasArtistAndAlbum(metadata)
                        THEN set_cover(cache, metadata.artist, metadata.album[1],
                                       c.result[1])
                        ELSE cache,
                        Some(c))
                : c \in UNION {retrieve_cover(metadata, d) : d \in DownloadOutcomes} }

\* _embed_metadata_with_cache: cover_result stays None when opening or
\* tagging the file raises before the cover step
embed_metadata_with_cache(metadata, cache) ==
    {EmbedResult(None, cache, None)}
    \cup {EmbedResult(Some(e.cover_result), e.cache, e.cascade) :
            e \in embed_album_cover_with_cache(metadata, cache)}

DownloadResult(success, error, cover_result) ==
    [success |-> success, error |-> error, cover_result |-> cover_result]

\* the try body of download_track_with_cache after a fetch that did not raise
download_succeeded(job, e) ==
    [job |-> [job EXCEPT !.status = "completed", !.error = None],
     result |-> DownloadResult(TRUE, None, e.cover_result),
     cache |-> e.cache, cascade |-> e.cascade, fetch |-> None, raised |-> FALSE]

\* a mutant of download_failed: no except clause, the exception leaves
\* download_track_with_cache with the job as it was
download_failed_reraised(job, cache, exc) ==
    [job |-> job, result |-> DownloadResult(FALSE, Some(exc), None),
     cache |-> cache, cascade |-> None, fetch |-> Some(exc), raised |-> TRUE]

\* a mutant of download_failed: job.error is not set
download_failed_without_error(job, cache, exc) ==
    [job |-> [job EXCEPT !.status = "error"],
     result |-> DownloadResult(FALSE, Some(exc), None),
     cache |-> cache, cascade |-> None, fetch |-> Some(exc), raised |-> FALSE]

\* the except branch of download_track_with_cache: exc is str(exc)
download_failed(job, cache, exc) ==
    [job |-> [job EXCEPT !.status = "error", !.error = Some(exc)],
     result |-> DownloadResult(FALSE, Some(exc), None),
     cache |-> cache, cascade |-> None, fetch |-> Some(exc), raised |-> FALSE]

\* download_track_with_cache: the job as it leaves it, the DownloadResult,
\* the cache, the cascade invocation made (or None), what the fetch did, and
\* whether an exception left the call (the except clause lets none out)
download_track_with_cache(job, cache) ==
    {download_failed(job, cache, f[1]) : f \in FetchOutcomes \ {None}}
    \cup {download_succeeded(job, e) :
            e \in embed_metadata_with_cache(job.metadata, cache)}

\* DownloadOutcome(job=job, success=..., error=..., cover_...): job is the
\* job's position in the batch
DownloadOutcome(job_index, download_result) ==
    LET cover_result == download_result.cover_result
    IN  [job |-> job_index,
         success |-> download_result.success,
         error |-> download_result.error,
         cover_success |-> IF cover_result # None THEN cover_result[1].success
                           ELSE FALSE,
         cover_source |-> IF cover_result # None THEN cover_result[1].source
                          ELSE None,
         cover_confidence |->
            IF cover_result # None THEN Some(cover_result[1].album_match_confidence)
            ELSE None]

\* progress_callback(index, total, job), recorded with the status read then
ProgressEvent(i, total, status) ==
    [index |-> i, total |-> total, job |-> i, status |-> status]

\* one retrieve_cover invocation, as the pipeline's log keeps it
Invocation(phase, metadata, c) ==
    [phase |-> phase, metadata |-> metadata, raised |-> c.raised,
     result |-> c.result]

----------------------------------------------------------------------------
(* The inputs of the model *)

Artists == {<<>>, <<"a">>, <<"A">>}

Albums == {None, Some(<<"b">>), Some(<<"c">>)}

Titles == {<<"t">>}

CoverHints == {None, Some("https://yt3.example/cover.jpg")}

SourceUrl == "https://youtu.be/x"

JobMetadata ==
    {TrackMetadata(t, a, al, h, Some(SourceUrl), TRUE) :
        t \in Titles, a \in Artists, al \in Albums, h \in CoverHints}

\* every batch of at most MaxJobs freshly constructed jobs (the output path
\* plays no part in download beyond being handed to the fetcher)
Batches ==
    UNION {[1..n -> {DownloadJob(SourceUrl, m, <<None, <<"x">>>>) : m \in JobMetadata}] :
            n \in 0..MaxJobs}

----------------------------------------------------------------------------
(* DownloadPipeline.download *)

\* a mutant of download: the jobs are started without awaiting the pre-warm
Download_not_awaiting(batch, callback) ==
    /\ pc = "idle"
    /\ jobs' = batch
    /\ progress_callback' = callback
    /\ index' = 1
    /\ outcomes' = <<>>
    /\ events' = <<>>
    /\ cascade_log' = <<>>
    /\ fetch_log' = <<>>
    /\ unique_albums' = collect_unique_albums(batch, cover_cache, 1, <<>>)
    /\ pc' = IF batch = <<>> THEN "returned" ELSE "start_job"
    /\ UNCHANGED <<cover_cache>>
    /\ UNCHANGED otherVars

\* download(jobs, progress_callback) up to the end of the collection loop of
\* _pre_cache_album_covers: an empty batch returns [] at once
Download(batch, callback) ==
    /\ pc = "idle"
    /\ jobs' = batch
    /\ progress_callback' = callback
    /\ index' = 1
    /\ outcomes' = <<>>
    /\ events' = <<>>
    /\ cascade_log' = <<>>
    /\ fetch_log' = <<>>
    /\ IF batch = <<>>
       THEN pc' = "returned" /\ unique_albums' = <<>>
       ELSE LET unique == collect_unique_albums(batch, cover_cache, 1, <<>>)
            IN  /\ unique_albums' = unique
                /\ pc' = IF unique = <<>> THEN "start_job" ELSE "prewarm"
    /\ UNCHANGED <<cover_cache>>
    /\ UNCHANGED otherVars

\* _retrieve_covers: one iteration.  An exception of retrieve_cover leaves
\* the thread, _pre_cache_album_covers and download
PreCacheCover ==
    /\ pc = "prewarm"
    /\ LET u == Head(unique_albums)
           metadata == TrackMetadata(UnknownTitle, u.key[1], Some(u.key[2]),
                                     u.yt_cover_url, None, TRUE)
       IN  \E d \in DownloadOutcomes : \E c \in retrieve_cover(metadata, d) :
             /\ cascade_log' = Append(cascade_log,
                                      Invocation("prewarm", metadata, c))
             /\ IF c.raised
                THEN /\ pc' = "raised"
                     /\ UNCHANGED <<cover_cache, unique_albums>>
                ELSE /\ cover_cache' = set_cover(cover_cache, u.key[1], u.key[2],
                                                 c.result[1])
                     /\ unique_albums' = Tail(unique_albums)
                     /\ pc' = IF Tail(unique_albums) = <<>> THEN "start_job"
                              ELSE "prewarm"
    /\ UNCHANGED <<jobs, progress_callback, index, outcomes, events, fetch_log>>
    /\ UNCHANGED otherVars

\* _run_download: job.status = "in_progress" and the first callback
StartJob ==
    /\ pc = "start_job"
    /\ jobs' = [jobs EXCEPT ![index].status = "in_progress"]
    /\ events' = IF progress_callback
                 THEN Append(events, ProgressEvent(index, Len(jobs), "in_progress"))
                 ELSE events
    /\ pc' = "run_job"
    /\ UNCHANGED <<progress_callback, cover_cache, unique_albums, index, outcomes,
                   cascade_log, fetch_log>>
    /\ UNCHANGED otherVars

\* _run_download: download_track_with_cache, the second callback and the
\* outcome; after the last job download returns the outcomes.  The loop has
\* no try block: an exception out of download_track_with_cache would leave
\* the thread and download
RunJob ==
    /\ pc = "run_job"
    /\ \E r \in download_track_with_cache(jobs[index], cover_cache) :
         /\ jobs' = [jobs EXCEPT ![index] = r.job]
         /\ cover_cache' = r.cache
         /\ fetch_log' = Append(fetch_log, r.fetch)
         /\ cascade_log' =
                IF r.cascade = None THEN cascade_log
                ELSE Append(cascade_log,
                        Invocation("execution", jobs[index].metadata, r.cascade[1]))
         /\ IF r.raised
            THEN /\ pc' = "raised"
                 /\ UNCHANGED <<events, outcomes, index>>
            ELSE /\ events' = IF progress_callback
                              THEN Append(events,
                                      ProgressEvent(index, Len(jobs), r.job.status))
                              ELSE events
                 /\ outcomes' = Append(outcomes, DownloadOutcome(index, r.result))
                 /\ index' = index + 1
                 /\ pc' = IF index = Len(jobs) THEN "returned" ELSE "start_job"
    /\ UNCHANGED <<progress_callback, unique_albums>>
    /\ UNCHANGED otherVars

Init ==
    /\ pc = "idle"
    /\ jobs = <<>>
    /\ progress_callback = FALSE
    /\ cover_cache = EmptyCache
    /\ unique_albums = <<>>
    /\ index = 1
    /\ outcomes = <<>>
    /\ events = <<>>
    /\ cascade_log = <<>>
    /\ fetch_log = <<>>
    /\ direct_call = None
    /\ tracks = <<>>
    /\ existing_files = {}
    /\ created = None
    /\ cache_calls = <<>>
    /\ match_call = None
    /\ clean_call = None
    /\ review = None
    /\ adapter_call = None
    /\ download_call = None
    /\ limiter = None
    /\ progress_screen = None

Next ==
    \/ \E batch \in Batches, callback \in BOOLEAN : Download(batch, callback)
    \/ PreCacheCover
    \/ StartJob
    \/ RunJob

Spec == Init /\ [][Next]_vars

\* download runs in one worker thread (asyncio.to_thread), which runs until
\* it returns or raises: a step that can be taken is taken
FairSpec == Spec /\ WF_vars(Next)

-----------------------------------------------------------------------------
(* One DownloadPipeline used for several download calls: the Cover Cache    *)
(* lives as long as the pipeline and is never cleared between calls.        *)

\* the batches of the repeated calls: one album under two spellings of the
\* artist, and tracks without album
RepeatBatches ==
    UNION {[1..n -> {DownloadJob(SourceUrl,
                                 TrackMetadata(<<"t">>, a, al, None, Some(SourceUrl), TRUE),
                                 <<None, <<"x">>>>) :
                        a \in {<<"a">>, <<"A">>}, al \in {None, Some(<<"b">>)}}] :
            n \in 0..MaxJobs}

\* download(jobs) on a pipeline that is not running a batch: the first call,
\* or a call after an earlier one has returned or raised
DownloadAgain(batch) ==
    /\ pc \in {"idle", "returned", "raised"}
    /\ jobs' = batch
    /\ progress_callback' = FALSE
    /\ index' = 1
    /\ outcomes' = <<>>
    /\ events' = <<>>
    /\ cascade_log' = <<>>
    /\ fetch_log' = <<>>
    /\ IF batch = <<>>
       THEN pc' = "returned" /\ unique_albums' = <<>>
       ELSE LET unique == collect_unique_albums(batch, cover_cache, 1, <<>>)
            IN  /\ unique_albums' = unique
                /\ pc' = IF unique = <<>> THEN "start_job" ELSE "prewarm"
    /\ UNCHANGED <<cover_cache>>
    /\ UNCHANGED otherVars

NextRepeat ==
    \/ \E batch \in RepeatBatches : DownloadAgain(batch)
    \/ PreCacheCover
    \/ StartJob
    \/ RunJob

SpecRepeat == Init /\ [][NextRepeat]_vars

----------------------------------------------------------------------------
(* A direct call of AlbumCoverRetriever.retrieve_cover *)

CascadeMetadata ==
    {TrackMetadata(t, a, al, h, None, TRUE) :
        t \in Titles \cup {<<>>}, a \in Artists, al \in Albums \cup {Some(<<>>)},
        h \in CoverHints \cup {Some("")}}

\* retrieve_cover(metadata), the image host answering the hint URL with
\* hint_download
RetrieveCover(metadata, hint_download) ==
    /\ \E c \in retrieve_cover(metadata, hint_download) :
         direct_call' = Some([metadata |-> metadata,
                              hint_download |-> hint_download, outcome |-> c])
    /\ UNCHANGED pipelineVars
    /\ UNCHANGED <<tracks, existing_files, created>>
    /\ UNCHANGED componentVars

NextCascade ==
    \E metadata \in CascadeMetadata, d \in DownloadOutcomes :
        RetrieveCover(metadata, d)

SpecCascade == Init /\ [][NextCascade]_vars

----------------------------------------------------------------------------
(* sanitize_filename (utils/filesystem.py) *)

invalid_chars == {"<", ">", ":", "\"", "/", "\\", "|", "?", "*"}

\* the characters the pattern [^\w\s\-\.] leaves alone
KeptChars ==
    {"a", "b", "c", "d", "e", "f", "g", "h", "i", "j", "k", "l", "m", "n",
     "o", "p", "q", "r", "s", "t", "u", "v", "w", "x", "y", "z",
     "A", "B", "C", "D", "E", "F", "G", "H", "I", "J", "K", "L", "M", "N",
     "O", "P", "Q", "R", "S", "T", "U", "V", "W", "X", "Y", "Z",
     "0", "1", "2", "3", "4", "5", "6", "7", "8", "9", "_",
     " ", "-", "."}

\* str.strip(chars)
RECURSIVE StripChars(_, _)
StripChars(s, chars) ==
    IF s # <<>> /\ Head(s) \in chars THEN StripChars(Tail(s), chars)
    ELSE IF s # <<>> /\ s[Len(s)] \in chars
         THEN StripChars(SubSeq(s, 1, Len(s) - 1), chars)
         ELSE s

sanitize_filename(filename) ==
    LET replaced == [i \in 1..Len(filename) |->
                        IF filename[i] \in invalid_chars THEN "_"
                        ELSE IF filename[i] \notin KeptChars THEN "_"
                        ELSE filename[i]]
        sanitized == StripChars(replaced, {" ", "."})
    IN  IF sanitized = <<>>
        THEN <<"u", "n", "t", "i", "t", "l", "e", "d">>
        ELSE sanitized

----------------------------------------------------------------------------
(* Paths: a sequence of components, the last one the file name (pathlib) *)

\* base / name
JoinPath(base, name) == Append(base, name)

PathName(path) == path[Len(path)]

\* str.rfind("."), 0 when there is no dot (positions are 1-based here)
RFindDot(name) ==
    LET dots == {i \in 1..Len(name) : name[i] = "."}
    IN  IF dots = {} THEN 0 ELSE CHOOSE i \in dots : \A j \in dots : j <= i

\* PurePath.suffix: from the last dot, when that dot is neither the first nor
\* the last character of the name
PathSuffix(path) ==
    LET name == PathName(path)
        i == RFindDot(name)
    IN  IF 1 < i /\ i < Len(name) THEN SubSeq(name, i, Len(name)) ELSE <<>>

\* PurePath.stem
PathStem(path) ==
    LET name == PathName(path)
    IN  SubSeq(name, 1, Len(name) - Len(PathSuffix(path)))

\* PurePath.with_name
with_name(path, name) == Append(SubSeq(path, 1, Len(path) - 1), name)

\* PurePath.with_suffix
with_suffix(path, suffix) == with_name(path, PathStem(path) \o suffix)

----------------------------------------------------------------------------
(* AudioDownloader.create_output_path, with the default filename template  *)
(* "{artist} - {title}" (config.py)                                        *)

\* _render_filename: the template's fields, then "rendered.strip() or Track"
render_filename(metadata) ==
    LET artist == IF metadata.artist # <<>> THEN metadata.artist
                  ELSE <<"U", "n", "k", "n", "o", "w", "n", " ",
                         "A", "r", "t", "i", "s", "t">>
        title == IF metadata.title # <<>> THEN metadata.title ELSE UnknownTitle
        rendered == artist \o <<" ", "-", " ">> \o title
    IN  IF Strip(rendered) # <<>> THEN Strip(rendered)
        ELSE <<"T", "r", "a", "c", "k">>

create_output_path(metadata, base_dir) ==
    with_suffix(JoinPath(base_dir, sanitize_filename(render_filename(metadata))),
                <<".", "m", "p", "3">>)

----------------------------------------------------------------------------
(* DownloadPipeline._ensure_unique_path *)

\* str(counter)
RECURSIVE DecimalString(_)
DecimalString(n) ==
    LET digit == <<"0", "1", "2", "3", "4", "5", "6", "7", "8", "9">>[(n % 10) + 1]
    IN  IF n < 10 THEN <<digit>> ELSE Append(DecimalString(n \div 10), digit)

\* f"{stem} ({counter}){suffix}"
numbered_candidate(stem, counter, suffix) ==
    stem \o <<" ", "(">> \o DecimalString(counter) \o <<")">> \o suffix

\* a mutant of first_free_candidate: the numbering starts above the count of
\* the names already taken
first_free_candidate_above(output_path, used_names, files, counter) ==
    LET n == counter + Cardinality(used_names) + Cardinality(files)
        candidate == numbered_candidate(PathStem(output_path), n,
                                        PathSuffix(output_path))
    IN  [path |-> with_name(output_path, candidate),
         used_names |-> used_names \cup {candidate}]

\* the "while True" loop: the first counter whose candidate is free
RECURSIVE first_free_candidate(_, _, _, _)
first_free_candidate(output_path, used_names, files, counter) ==
    LET candidate == numbered_candidate(PathStem(output_path), counter,
                                        PathSuffix(output_path))
        candidate_path == with_name(output_path, candidate)
    IN  IF candidate \notin used_names /\ candidate_path \notin files
        THEN [path |-> candidate_path, used_names |-> used_names \cup {candidate}]
        ELSE first_free_candidate(output_path, used_names, files, counter + 1)

\* a mutant of ensure_unique_path: the requested path is taken as it is
ensure_unique_path_unchecked(output_path, used_names, files) ==
    [path |-> output_path,
     used_names |-> used_names \cup {PathName(output_path)}]

\* returns the path and the used_names it has added the name to; files are
\* the paths for which Path.exists() answers true
ensure_unique_path(output_path, used_names, files) ==
    IF PathName(output_path) \notin used_names /\ output_path \notin files
    THEN [path |-> output_path,
          used_names |-> used_names \cup {PathName(output_path)}]
    ELSE first_free_candidate(output_path, used_names, files, 1)

----------------------------------------------------------------------------
(* DownloadPipeline.create_download_jobs *)

\* a mutant of skipped: no track is skipped
skipped_never(metadata) == FALSE

\* "if not metadata.selected: continue"
skipped(metadata) == ~metadata.selected

\* what a call does: it returns a value or raises exc
Returned(value) == [raised |-> FALSE, exc |-> None, value |-> Some(value)]

Raised(exc) == [raised |-> TRUE, exc |-> Some(exc), value |-> None]

\* the playlist subfolder, when a playlist title is given
target_dir(base_dir, playlist_title) ==
    IF Truthy(playlist_title)
    THEN LET playlist_folder == sanitize_filename(playlist_title[1])
         IN  IF playlist_folder # <<>> THEN JoinPath(base_dir, playlist_folder)
             ELSE base_dir
    ELSE base_dir

\* the loop over the tracks from position i on, with the jobs built and the
\* names used so far
RECURSIVE create_jobs_from(_, _, _, _, _, _)
create_jobs_from(track_list, dir, files, i, built, used_names) ==
    IF i > Len(track_list) THEN Returned(built)
    ELSE LET metadata == track_list[i]
         IN  IF skipped(metadata)
             THEN create_jobs_from(track_list, dir, files, i + 1, built, used_names)
             ELSE IF ~TruthyUrl(metadata.source_url)
             THEN Raised("ValueError")
             ELSE LET unique == ensure_unique_path(
                                    create_output_path(metadata, dir),
                                    used_names, files)
                  IN  create_jobs_from(track_list, dir, files, i + 1,
                          Append(built, DownloadJob(metadata.source_url[1],
                                                    metadata, unique.path)),
                          unique.used_names)

create_download_jobs(track_list, base_dir, playlist_title, files) ==
    create_jobs_from(track_list, target_dir(base_dir, playlist_title), files,
                     1, <<>>, {})

----------------------------------------------------------------------------
(* A call of create_download_jobs against a filesystem *)

BaseDir == << <<"d">> >>

PlaylistTitles == {None, Some(<<>>), Some(<<"p">>)}

\* "a - s.v" loses its ".v" to with_suffix and so renders like "a - s"
TrackTitles == {<<>>, <<"s">>, <<"s", ".", "v">>}

SourceUrls == {None, Some(""), Some(SourceUrl)}

Tracks ==
    {TrackMetadata(t, <<"a">>, None, None, u, sel) :
        t \in TrackTitles, u \in SourceUrls, sel \in BOOLEAN}

TrackLists == UNION {[1..n -> Tracks] : n \in 0..MaxJobs}

\* the files that may exist before the call: the path a track "a - s" asks
\* for, in the base directory and in the playlist folder, and its first
\* numbered variant
SongPath(dir) ==
    create_output_path(
        TrackMetadata(<<"s">>, <<"a">>, None, None, Some(SourceUrl), TRUE), dir)

FileSystems ==
    SUBSET {SongPath(BaseDir),
            with_name(SongPath(BaseDir),
                      numbered_candidate(PathStem(SongPath(BaseDir)), 1,
                                         PathSuffix(SongPath(BaseDir)))),
            SongPath(target_dir(BaseDir, Some(<<"p">>)))}

\* create_download_jobs(tracks, base_dir, playlist_title): the first call of
\* a behaviour; created keeps the calls made, in order
CreateDownloadJobs(track_list, base_dir, playlist_title) ==
    /\ created = None
    /\ tracks' = track_list
    /\ created' = Some([base_dir |-> base_dir, playlist_title |-> playlist_title,
                        outcome |-> create_download_jobs(track_list, base_dir,
                                        playlist_title, existing_files)])
    /\ UNCHANGED pipelineVars
    /\ UNCHANGED <<direct_call, existing_files>>
    /\ UNCHANGED componentVars

\* a mutant of CreateDownloadJobsAgain: used_names is kept between calls
CreateDownloadJobsAgain_leaking ==
    /\ Len(created) = 1
    /\ created' = Append(created,
            [created[1] EXCEPT !.outcome =
                create_jobs_from(tracks,
                    target_dir(created[1].base_dir, created[1].playlist_title),
                    existing_files, 1, <<>>,
                    IF created[1].outcome.raised THEN {}
                    ELSE {PathName(created[1].outcome.value[1][i].output_path) :
                            i \in 1..Len(created[1].outcome.value[1])})])
    /\ UNCHANGED pipelineVars
    /\ UNCHANGED <<direct_call, tracks, existing_files>>
    /\ UNCHANGED componentVars

\* the same call once more: the same tracks, base directory and playlist
\* title, against the unchanged filesystem; jobs and used_names are locals
\* of create_download_jobs, so the call starts from nothing
CreateDownloadJobsAgain ==
    /\ Len(created) = 1
    /\ created' = Append(created,
            [created[1] EXCEPT !.outcome =
                create_download_jobs(tracks, created[1].base_dir,
                                     created[1].playlist_title, existing_files)])
    /\ UNCHANGED pipelineVars
    /\ UNCHANGED <<direct_call, tracks, existing_files>>
    /\ UNCHANGED componentVars

InitCreate ==
    /\ pc = "idle"
    /\ jobs = <<>>
    /\ progress_callback = FALSE
    /\ cover_cache = EmptyCache
    /\ unique_albums = <<>>
    /\ index = 1
    /\ outcomes = <<>>
    /\ events = <<>>
    /\ cascade_log = <<>>
    /\ fetch_log = <<>>
    /\ direct_call = None
    /\ tracks = <<>>
    /\ created = None
    /\ existing_files \in FileSystems
    /\ cache_calls = <<>>
    /\ match_call = None
    /\ clean_call = None
    /\ review = None
    /\ adapter_call = None
    /\ download_call = None
    /\ limiter = None
    /\ progress_screen = None

NextCreate ==
    \/ \E track_list \in TrackLists, playlist_title \in PlaylistTitles :
        CreateDownloadJobs(track_list, BaseDir, playlist_title)
    \/ CreateDownloadJobsAgain

SpecCreate == InitCreate /\ [][NextCreate]_vars

----------------------------------------------------------------------------
(* The Cover Cache called directly: set_cover, clear and get_cover *)

\* the most set_cover / clear calls followed on one cache
MaxCacheCalls == 3

\* AlbumCoverCache.clear
clear(cache) == EmptyCache

\* "a" and "A" differ by case, "a" and "a " by a trailing blank
CacheArtists == {<<"a">>, <<"A">>, <<"a", " ">>}

CacheAlbums == {<<"b">>, <<"c">>}

CacheResults ==
    {CoverFailure("No album cover found from MusicBrainz or iTunes", "none"),
     CoverResult(TRUE, Some("https://itunes.example/600x600.jpg"), Some(1),
                 Some("itunes"), "exact", None)}

\* the state a call on the cache leaves alone
notCacheVars == <<pc, jobs, progress_callback, unique_albums, index, outcomes,
                  events, cascade_log, fetch_log, direct_call, tracks,
                  existing_files, created, match_call, clean_call, review,
                  adapter_call,
                  download_call, limiter, progress_screen>>

\* cache.set_cover(artist, album, cover_result)
SetCover(artist, album, cover_result) ==
    /\ Len(cache_calls) < MaxCacheCalls
    /\ cover_cache' = set_cover(cover_cache, artist, album, cover_result)
    /\ cache_calls' = Append(cache_calls,
                             [op |-> "set", artist |-> artist, album |-> album,
                              cover_result |-> Some(cover_result)])
    /\ UNCHANGED notCacheVars

\* cache.clear()
Clear ==
    /\ Len(cache_calls) < MaxCacheCalls
    /\ cover_cache' = clear(cover_cache)
    /\ cache_calls' = Append(cache_calls,
                             [op |-> "clear", artist |-> <<>>, album |-> <<>>,
                              cover_result |-> None])
    /\ UNCHANGED notCacheVars

NextCache ==
    \/ \E artist \in CacheArtists, album \in CacheAlbums, r \in CacheResults :
            SetCover(artist, album, r)
    \/ Clear

SpecCache == Init /\ [][NextCache]_vars

----------------------------------------------------------------------------
(* AlbumMatcher (album_cover_retriever.py) *)

\* the longest album name built from the alphabet
MaxNameLen == 3

\* s.split(ch)[0]: the text before the first ch, all of s when it has none
SplitFirst(s, ch) ==
    LET at == {i \in 1..Len(s) : s[i] = ch}
    IN  IF at = {} THEN s
        ELSE SubSeq(s, 1, (CHOOSE i \in at : \A j \in at : i <= j) - 1)

\* a mutant of normalize_album_name: bracket suffixes are kept
normalize_album_name_parentheses_only(album_name) ==
    Strip(SplitFirst(Strip(album_name), "("))

\* AlbumMatcher.normalize_album_name
normalize_album_name(album_name) ==
    Strip(SplitFirst(Strip(SplitFirst(Strip(album_name), "(")), "["))

\* "needle in hay" on str
Contains(hay, needle) ==
    \E i \in 0..(Len(hay) - Len(needle)) :
        SubSeq(hay, i + 1, i + Len(needle)) = needle

\* a mutant of contains_either: only the expected name is looked for
contains_expected_only(expected_norm, returned_norm) ==
    Contains(returned_norm, expected_norm)

\* "expected_norm in returned_norm or returned_norm in expected_norm"
contains_either(expected_norm, returned_norm) ==
    Contains(returned_norm, expected_norm) \/ Contains(expected_norm, returned_norm)

\* set(s.split()): the maximal runs without a blank
SplitWords(s) ==
    {SubSeq(s, r[1], r[2]) :
        r \in {q \in (1..Len(s)) \X (1..Len(s)) :
                /\ q[1] <= q[2]
                /\ \A k \in q[1]..q[2] : s[k] # " "
                /\ (q[1] = 1 \/ s[q[1] - 1] = " ")
                /\ (q[2] = Len(s) \/ s[q[2] + 1] = " ")}}

\* config.py: ALBUM_NAME_WORD_OVERLAP_RATIO = 0.5, as numerator and denominator
ALBUM_NAME_WORD_OVERLAP_RATIO == <<1, 2>>

\* a mutant of overlap_reaches: the ratio has to exceed the threshold
overlap_exceeds(common, words, ratio) == common * ratio[2] > words * ratio[1]

\* "len(common_words) / max(...) >= ALBUM_NAME_WORD_OVERLAP_RATIO"
overlap_reaches(common, words, ratio) == common * ratio[2] >= words * ratio[1]

Max(a, b) == IF a >= b THEN a ELSE b

\* AlbumMatcher.album_names_match
album_names_match(returned_album, expected_album) ==
    IF expected_album = <<>> THEN <<TRUE, "no_album_expected">>
    ELSE LET expected_norm == normalize_album_name(Lower(expected_album))
             returned_norm == normalize_album_name(Lower(returned_album))
             expected_words == SplitWords(expected_norm)
             returned_words == SplitWords(returned_norm)
         IN  IF expected_norm = returned_norm THEN <<TRUE, "exact">>
             ELSE IF contains_either(expected_norm, returned_norm)
             THEN <<TRUE, "partial">>
             ELSE IF /\ expected_words # {} /\ returned_words # {}
                     /\ overlap_reaches(
                            Cardinality(expected_words \cap returned_words),
                            Max(Cardinality(expected_words),
                                Cardinality(returned_words)),
                            ALBUM_NAME_WORD_OVERLAP_RATIO)
             THEN <<TRUE, "word_overlap">>
             ELSE <<FALSE, "no_match">>

\* the characters album names are built from
NameChars == {"a", "b", "c", "A", " ", "(", "["}

\* every name of at most MaxNameLen characters, and longer names of three
\* words, a suffix in parentheses and a suffix in brackets
AlbumNames ==
    UNION {[1..n -> NameChars] : n \in 0..MaxNameLen}
    \cup {<<"a", " ", "b", " ", "c">>, <<"a", " ", "a", " ", "a">>,
          <<"a", " ", "b", " ", "(", "c", ")">>,
          <<" ", "a", " ", "b", " ", "[", "c", "]", " ">>,
          <<"a", " ", "(", "b", ")", " ", "[", "c", "]">>}

\* the state a call on the matcher leaves alone
notMatcherVars == <<direct_call, tracks, existing_files, created, cache_calls,
                    clean_call, review, adapter_call,
                    download_call, limiter, progress_screen>>

\* AlbumMatcher.album_names_match(returned_album, expected_album)
AlbumNamesMatch(returned_album, expected_album) ==
    /\ match_call = None
    /\ match_call' = Some([op |-> "album_names_match",
                           returned_album |-> returned_album,
                           expected_album |-> expected_album,
                           result |-> album_names_match(returned_album,
                                                        expected_album)])
    /\ UNCHANGED pipelineVars
    /\ UNCHANGED notMatcherVars

\* AlbumMatcher.normalize_album_name(album_name)
NormalizeAlbumName(album_name) ==
    /\ match_call = None
    /\ match_call' = Some([op |-> "normalize_album_name",
                           album_name |-> album_name,
                           result |-> normalize_album_name(album_name)])
    /\ UNCHANGED pipelineVars
    /\ UNCHANGED notMatcherVars

\* one call is followed: both functions are static and keep no state
NextMatcher ==
    \/ /\ match_call = None
       /\ \E returned_album \in AlbumNames, expected_album \in AlbumNames :
            AlbumNamesMatch(returned_album, expected_album)
    \/ /\ match_call = None
       /\ \E album_name \in AlbumNames : NormalizeAlbumName(album_name)

SpecMatcher == Init /\ [][NextMatcher]_vars

----------------------------------------------------------------------------
(* MetadataCleaner.clean_track (metadata.py) *)

UnknownArtist ==
    <<"U", "n", "k", "n", "o", "w", "n", " ", "A", "r", "t", "i", "s", "t">>

\* _clean_string: "" for a falsy value, else value.strip()
clean_string(value) == IF value = <<>> THEN <<>> ELSE Strip(value)

\* _clean_optional_string: None for a falsy value or one that strips to ""
clean_optional_string(value) ==
    IF ~Truthy(value) THEN None
    ELSE IF Strip(value[1]) # <<>> THEN Some(Strip(value[1])) ELSE None

\* _validate_year
validate_year(year) ==
    IF year = None THEN None
    ELSE IF 1900 <= year[1] /\ year[1] <= 2100 THEN year
    ELSE None

\* a mutant of validate_track_number: zero passes
validate_track_number_from_zero(track_num) ==
    IF track_num = None THEN None
    ELSE IF 0 <= track_num[1] /\ track_num[1] <= 999 THEN track_num
    ELSE None

\* _validate_track_number
validate_track_number(track_num) ==
    IF track_num = None THEN None
    ELSE IF 1 <= track_num[1] /\ track_num[1] <= 999 THEN track_num
    ELSE None

\* clean_track: the copy it builds; youtube_album_cover_url is not passed to
\* the constructor and so takes its default, None (extra is not modelled)
clean_track(metadata, default_genre) ==
    [title |-> IF clean_string(metadata.title) # <<>>
               THEN clean_string(metadata.title) ELSE UnknownTitle,
     artist |-> IF clean_string(metadata.artist) # <<>>
                THEN clean_string(metadata.artist) ELSE UnknownArtist,
     album |-> clean_optional_string(metadata.album),
     genre |-> IF Truthy(clean_optional_string(metadata.genre))
               THEN clean_optional_string(metadata.genre) ELSE default_genre,
     year |-> validate_year(metadata.year),
     track_number |-> validate_track_number(metadata.track_number),
     total_tracks |-> validate_track_number(metadata.total_tracks),
     duration |-> metadata.duration,
     source_url |-> metadata.source_url,
     selected |-> metadata.selected,
     thumbnail_url |-> metadata.thumbnail_url,
     youtube_album_cover_url |-> None,
     original_title |-> metadata.original_title]

\* the tracks handed to clean_track: blank and padded strings, and numbers
\* on both sides of each limit
RawTracks ==
    [title : {<<>>, <<" ">>, <<" ", "t", " ">>},
     artist : {<<>>, <<" ">>, <<"a", " ">>},
     album : {None, Some(<<>>), Some(<<" ">>), Some(<<" ", "b">>)},
     genre : {None, Some(<<" ">>), Some(<<"g", " ">>)},
     year : {None, Some(0), Some(1899), Some(1900), Some(2100), Some(2101)},
     track_number : {None, Some(0), Some(1), Some(999), Some(1000)},
     total_tracks : {None, Some(0), Some(2), Some(1000)},
     duration : {Some(185)},
     source_url : {Some(SourceUrl)},
     selected : {TRUE},
     thumbnail_url : {None},
     youtube_album_cover_url : CoverHints,
     original_title : {None}]

DefaultGenres == {None, Some(<<"d">>)}

\* MetadataCleaner.clean_track(metadata, default_genre)
CleanTrack(metadata, default_genre) ==
    /\ clean_call = None
    /\ clean_call' = Some([metadata |-> metadata, default_genre |-> default_genre,
                           cleaned |-> clean_track(metadata, default_genre)])
    /\ UNCHANGED pipelineVars
    /\ UNCHANGED <<direct_call, tracks, existing_files, created, cache_calls,
                   match_call, review, adapter_call,
                   download_call, limiter, progress_screen>>

\* one call is followed: clean_track is static and keeps no state
NextCleaner ==
    /\ clean_call = None
    /\ \E metadata \in RawTracks, default_genre \in DefaultGenres :
            CleanTrack(metadata, default_genre)

SpecCleaner == Init /\ [][NextCleaner]_vars

----------------------------------------------------------------------------
(* The metadata review screen (ui/metadata_review_screen.py): selection and *)
(* bulk edit                                                                *)

\* the largest track list shown on the review screen
MaxTracks == 2

\* dict.get(key, default)
DictGet(d, key, default) == IF key \in DOMAIN d THEN d[key] ELSE default

Digits == <<"0", "1", "2", "3", "4", "5", "6", "7", "8", "9">>

DigitValue(c) == (CHOOSE i \in 1..10 : Digits[i] = c) - 1

RECURSIVE DecimalValue(_)
DecimalValue(s) ==
    IF s = <<>> THEN 0
    ELSE 10 * DecimalValue(SubSeq(s, 1, Len(s) - 1)) + DigitValue(s[Len(s)])

\* int(year_str) inside try / except ValueError: the number of a string of
\* decimal digits, None for any other text
parse_year(year_str) ==
    IF year_str # <<>> /\ \A i \in 1..Len(year_str) :
                              \E d \in 1..10 : Digits[d] = year_str[i]
    THEN Some(DecimalValue(year_str))
    ELSE None

\* BulkEditModal.on_button_pressed, "apply": the dict handed to the callback
bulk_result(album_input, genre_input, year_input) ==
    LET album == Strip(album_input)
        genre == Strip(genre_input)
        year_str == Strip(year_input)
    IN  [album |-> IF album # <<>> THEN Some(album) ELSE None,
         genre |-> IF genre # <<>> THEN Some(genre) ELSE None,
         year |-> IF year_str # <<>> THEN parse_year(year_str) ELSE None]

\* bulk_callback, one track: dataclasses.replace with the three fields read
\* from the dict, then _clean_track
bulk_update(track, result, default_genre) ==
    clean_track([track EXCEPT !.album = DictGet(result, "album", track.album),
                              !.genre = DictGet(result, "genre", track.genre),
                              !.year = DictGet(result, "year", track.year)],
                default_genre)

\* bulk_callback(result): the tracks of selected_indexes are replaced
bulk_callback(track_list, selected_indexes, result, default_genre) ==
    [idx \in 1..Len(track_list) |->
        IF idx \in selected_indexes
        THEN bulk_update(track_list[idx], result, default_genre)
        ELSE track_list[idx]]

\* the tracks an extraction puts on the screen: each went through
\* clean_track with the configured default genre
ReviewTracks(default_genre) ==
    {clean_track(m, default_genre) :
        m \in [title : {<<"t">>}, artist : {<<"a">>},
               album : {None, Some(<<"b">>)},
               genre : {None, Some(<<"g">>)},
               year : {None, Some(1999)},
               track_number : {None}, total_tracks : {None},
               duration : {Some(185)}, source_url : {Some(SourceUrl)},
               selected : BOOLEAN, thumbnail_url : {None},
               youtube_album_cover_url : {None}, original_title : {None}]}

ReviewTrackLists(default_genre) ==
    UNION {[1..n -> ReviewTracks(default_genre)] : n \in 1..MaxTracks}

\* what the user types into the album, genre and year inputs
AlbumInputs == {<<>>, <<" ">>, <<"n">>}

GenreInputs == {<<>>, <<"r">>}

YearInputs == {<<>>, <<"2", "0", "0", "1">>, <<"3", "0", "0", "0">>, <<"x">>}

\* MetadataReviewScreen(extraction), with the app's configured default genre
ReviewScreen(track_list, default_genre) ==
    [tracks |-> track_list, default_genre |-> default_genre,
     modal |-> None, warned |-> FALSE, applied |-> None]

notReviewVars == <<direct_call, tracks, existing_files, created, cache_calls,
                   match_call, clean_call, adapter_call,
                   download_call, limiter, progress_screen>>

\* action_toggle_select on the row under the cursor
ToggleSelect(row_index) ==
    /\ review[1].modal = None
    /\ row_index \in 1..Len(review[1].tracks)
    /\ review' = Some([review[1] EXCEPT
                        !.tracks[row_index].selected = ~@,
                        !.warned = FALSE, !.applied = None])
    /\ UNCHANGED pipelineVars
    /\ UNCHANGED notReviewVars

\* action_bulk_edit: a warning when nothing is selected, else the modal is
\* pushed with the indexes selected now
BulkEdit ==
    /\ review[1].modal = None
    /\ LET selected_indexes == {idx \in 1..Len(review[1].tracks) :
                                    review[1].tracks[idx].selected}
       IN  review' = Some(IF selected_indexes = {}
                          THEN [review[1] EXCEPT !.warned = TRUE, !.applied = None]
                          ELSE [review[1] EXCEPT !.modal = Some(selected_indexes),
                                                 !.warned = FALSE,
                                                 !.applied = None])
    /\ UNCHANGED pipelineVars
    /\ UNCHANGED notReviewVars

\* BulkEditModal, button "apply": the callback runs and the modal is popped;
\* applied keeps the typed inputs and the tracks as they were
Apply(album_input, genre_input, year_input) ==
    /\ review[1].modal # None
    /\ review' = Some([review[1] EXCEPT
            !.tracks = bulk_callback(review[1].tracks, review[1].modal[1],
                                     bulk_result(album_input, genre_input, year_input),
                                     review[1].default_genre),
            !.modal = None,
            !.applied = Some([album |-> album_input, genre |-> genre_input,
                              year |-> year_input, before |-> review[1].tracks])])
    /\ UNCHANGED pipelineVars
    /\ UNCHANGED notReviewVars

\* BulkEditModal, button "cancel": callback(None) changes nothing
Cancel ==
    /\ review[1].modal # None
    /\ review' = Some([review[1] EXCEPT !.modal = None])
    /\ UNCHANGED pipelineVars
    /\ UNCHANGED notReviewVars

InitReview ==
    /\ pc = "idle"
    /\ jobs = <<>>
    /\ progress_callback = FALSE
    /\ cover_cache = EmptyCache
    /\ unique_albums = <<>>
    /\ index = 1
    /\ outcomes = <<>>
    /\ events = <<>>
    /\ cascade_log = <<>>
    /\ fetch_log = <<>>
    /\ direct_call = None
    /\ tracks = <<>>
    /\ existing_files = {}
    /\ created = None
    /\ cache_calls = <<>>
    /\ match_call = None
    /\ clean_call = None
    /\ adapter_call = None
    /\ download_call = None
    /\ limiter = None
    /\ progress_screen = None
    /\ \E default_genre \in DefaultGenres :
         review \in {Some(ReviewScreen(track_list, default_genre)) :
                        track_list \in ReviewTrackLists(default_genre)}

NextReview ==
    \/ \E row_index \in 1..MaxTracks : ToggleSelect(row_index)
    \/ BulkEdit
    \/ \E album_input \in AlbumInputs, genre_input \in GenreInputs,
          year_input \in YearInputs : Apply(album_input, genre_input, year_input)
    \/ Cancel

SpecReview == InitReview /\ [][NextReview]_vars

----------------------------------------------------------------------------
(* MusicBrainzRetriever (album_cover_retriever.py), with what the catalog   *)
(* and the cover art archive answer given as arguments.  A JSON object is a *)
(* record whose missing keys are None; a request that fails (network error, *)
(* HTTP error status, unparsable body) is the answer RequestFailed.         *)

\* the most entries a catalog response holds
MaxEntries == 2

\* what a search request gives: the entries of the parsed body, or a failure
Response(entries) == [ok |-> TRUE, entries |-> entries]

RequestFailed == [ok |-> FALSE, entries |-> <<>>]

\* _search_releases from the request on: data.get('releases', []), and []
\* for any exception
releases_of(response) == IF response.ok THEN response.entries ELSE <<>>

\* _search_releases(artist, album): no request without a query part
search_releases(artist, album, response) ==
    IF artist = <<>> /\ album = <<>> THEN <<>> ELSE releases_of(response)

RECURSIVE first_front_image(_, _)
first_front_image(images, i) ==
    IF i > Len(images) THEN None
    ELSE IF images[i].front THEN Some(i)
    ELSE first_front_image(images, i + 1)

\* _get_cover_url(release_id): None for a 404, for any exception (a failed
\* request, an image entry without 'image') and for an empty image list;
\* else the first front image, else the first image
get_cover_url(release_id, cover_art) ==
    LET answer == cover_art[release_id]
    IN  IF answer.status = 404 THEN None
        ELSE IF answer.status >= 400 THEN None
        ELSE LET images == answer.images
                 front == first_front_image(images, 1)
             IN  IF front # None THEN images[front[1]].image
                 ELSE IF images # <<>> THEN images[1].image
                 ELSE None

\* the loop of _search_album_direct and _search_album_fuzzy from entry i on:
\* release['title'] and release['id'] are plain subscripts, and a missing
\* key raises KeyError out of the loop
RECURSIVE scan_releases(_, _, _, _, _)
scan_releases(releases, i, expected_album, accepted, cover_art) ==
    IF i > Len(releases) THEN Returned(AdapterFailure(None))
    ELSE LET release == releases[i]
         IN  IF release.title = None THEN Raised("KeyError")
             ELSE LET match == album_names_match(release.title[1], expected_album)
                  IN  IF match[1] /\ match[2] \in accepted
                      THEN IF release.id = None THEN Raised("KeyError")
                           ELSE LET cover_url == get_cover_url(release.id[1], cover_art)
                                IN  IF TruthyUrl(cover_url)
                                    THEN Returned(AdapterSuccess(cover_url[1], match[2]))
                                    ELSE scan_releases(releases, i + 1, expected_album,
                                                       accepted, cover_art)
                      ELSE scan_releases(releases, i + 1, expected_album, accepted,
                                         cover_art)

\* every confidence tag album_names_match gives
MatchConfidences == {"no_album_expected", "exact", "partial", "word_overlap", "no_match"}

\* MusicBrainzRetriever._search_album_direct
MusicBrainz_search_album_direct(metadata, catalog) ==
    IF ~Truthy(metadata.album) THEN Returned(AdapterFailure(None))
    ELSE scan_releases(search_releases(metadata.artist, metadata.album[1],
                                       catalog.direct),
                       1, metadata.album[1], MatchConfidences, catalog.cover_art)

\* MusicBrainzRetriever._search_album_fuzzy
MusicBrainz_search_album_fuzzy(metadata, catalog) ==
    IF ~Truthy(metadata.album) THEN Returned(AdapterFailure(None))
    ELSE scan_releases(search_releases(metadata.artist, <<>>, catalog.fuzzy),
                       1, metadata.album[1], {"exact", "partial", "word_overlap"},
                       catalog.cover_art)

\* the loop of _search_recording from entry i on:
\* recording.get('releases', [{}])[0] is {} for a missing key and raises
\* IndexError for an empty list
RECURSIVE scan_recordings(_, _, _)
scan_recordings(recordings, i, cover_art) ==
    IF i > Len(recordings) THEN Returned(AdapterFailure(None))
    ELSE LET recording == recordings[i]
         IN  IF recording.releases = None
             THEN scan_recordings(recordings, i + 1, cover_art)
             ELSE IF recording.releases[1] = <<>> THEN Raised("IndexError")
             ELSE LET release == recording.releases[1][1]
                  IN  IF release.id = None
                      THEN scan_recordings(recordings, i + 1, cover_art)
                      ELSE LET cover_url == get_cover_url(release.id[1], cover_art)
                           IN  IF TruthyUrl(cover_url)
                               THEN Returned(AdapterSuccess(cover_url[1],
                                                            "recording_match"))
                               ELSE scan_recordings(recordings, i + 1, cover_art)

\* MusicBrainzRetriever._search_recording: the request and the loop are in
\* one try whose except clause passes
MusicBrainz_search_recording(metadata, catalog) ==
    IF ~catalog.recordings.ok THEN AdapterFailure(None)
    ELSE LET scan == scan_recordings(catalog.recordings.entries, 1,
                                     catalog.cover_art)
         IN  IF scan.raised THEN AdapterFailure(None) ELSE scan.value[1]

\* MusicBrainzRetriever.retrieve_cover: the steps tried, in order, and the
\* result
MusicBrainzRetriever_retrieve_cover(metadata, catalog) ==
    LET direct == MusicBrainz_search_album_direct(metadata, catalog)
        fuzzy == MusicBrainz_search_album_fuzzy(metadata, catalog)
        recording == MusicBrainz_search_recording(metadata, catalog)
        error == AdapterFailure(Some("MusicBrainz error"))
    IN  IF direct.raised THEN [steps |-> <<"direct">>, result |-> error]
        ELSE IF direct.value[1].success
        THEN [steps |-> <<"direct">>, result |-> direct.value[1]]
        ELSE IF fuzzy.raised THEN [steps |-> <<"direct", "fuzzy">>, result |-> error]
        ELSE IF fuzzy.value[1].success
        THEN [steps |-> <<"direct", "fuzzy">>, result |-> fuzzy.value[1]]
        ELSE [steps |-> <<"direct", "fuzzy", "recording">>,
              result |-> IF recording.success THEN recording
                         ELSE AdapterFailure(Some("No cover found via MusicBrainz"))]

\* MusicBrainzRetriever.retrieve_cover_for_recording
MusicBrainzRetriever_retrieve_cover_for_recording(metadata, catalog) ==
    LET recording == MusicBrainz_search_recording(metadata, catalog)
    IN  [steps |-> <<"recording">>,
         result |-> IF recording.success THEN recording
                    ELSE AdapterFailure(Some("No cover found via recording search"))]

\* release entries of a search response: with and without title and id
ReleaseEntries ==
    [title : {None, Some(<<"b">>), Some(<<"c">>)}, id : {None, Some("r1")}]

ReleaseResponses ==
    {RequestFailed}
    \cup {Response(e) : e \in UNION {[1..n -> ReleaseEntries] : n \in 0..MaxEntries}}

\* recording entries: no 'releases' key, an empty list, a release without
\* id, a release with id
RecordingEntries ==
    [releases : {None, Some(<<>>), Some(<<[id |-> None]>>),
                 Some(<<[id |-> Some("r1")]>>), Some(<<[id |-> Some("r2")]>>)}]

RecordingResponses ==
    {RequestFailed}
    \cup {Response(e) : e \in UNION {[1..n -> RecordingEntries] : n \in 0..MaxEntries}}

\* what the cover art archive answers for a release
CoverArtAnswers ==
    {[status |-> 404, images |-> <<>>],
     [status |-> 500, images |-> <<>>],
     [status |-> 200, images |-> <<>>],
     [status |-> 200,
      images |-> <<[front |-> FALSE, image |-> Some("https://coverartarchive.org/back.jpg")],
                   [front |-> TRUE, image |-> Some("https://coverartarchive.org/front.jpg")]>>]}

CoverArt == [{"r1", "r2"} -> CoverArtAnswers]

Catalog(direct, fuzzy, recordings, cover_art) ==
    [direct |-> direct, fuzzy |-> fuzzy, recordings |-> recordings,
     cover_art |-> cover_art]

notAdapterVars == <<direct_call, tracks, existing_files, created, cache_calls,
                    match_call, clean_call, review, download_call, limiter,
                    progress_screen>>

\* a call of MusicBrainzRetriever.retrieve_cover
MusicBrainzRetrieveCover(metadata, catalog) ==
    /\ adapter_call = None
    /\ adapter_call' = Some([op |-> "retrieve_cover", metadata |-> metadata,
                             catalog |-> catalog,
                             outcome |-> MusicBrainzRetriever_retrieve_cover(
                                            metadata, catalog)])
    /\ UNCHANGED pipelineVars
    /\ UNCHANGED notAdapterVars

\* a call of MusicBrainzRetriever.retrieve_cover_for_recording
MusicBrainzRetrieveCoverForRecording(metadata, catalog) ==
    /\ adapter_call = None
    /\ adapter_call' = Some([op |-> "retrieve_cover_for_recording",
                             metadata |-> metadata, catalog |-> catalog,
                             outcome |-> MusicBrainzRetriever_retrieve_cover_for_recording(
                                            metadata, catalog)])
    /\ UNCHANGED pipelineVars
    /\ UNCHANGED notAdapterVars

AlbumMetadata == TrackMetadata(<<"t">>, <<"a">>, Some(<<"b">>), None, None, TRUE)

TrackOnlyMetadata == TrackMetadata(<<"t">>, <<"a">>, None, None, None, TRUE)

\* one call is followed: the adapter keeps no state between calls.  The
\* album call is given a recording response of at most one entry
NextMusicBrainz ==
    \/ /\ adapter_call = None
       /\ \E direct \in ReleaseResponses, fuzzy \in ReleaseResponses,
             recordings \in {r \in RecordingResponses : Len(r.entries) <= 1},
             cover_art \in CoverArt :
            MusicBrainzRetrieveCover(AlbumMetadata,
                                     Catalog(direct, fuzzy, recordings, cover_art))
    \/ /\ adapter_call = None
       /\ \E recordings \in RecordingResponses, cover_art \in CoverArt :
            MusicBrainzRetrieveCoverForRecording(
                TrackOnlyMetadata,
                Catalog(RequestFailed, RequestFailed, recordings, cover_art))

SpecMusicBrainz == Init /\ [][NextMusicBrainz]_vars

----------------------------------------------------------------------------
(* ITunesRetriever (album_cover_retriever.py): album resolution, with what  *)
(* the search endpoint answers given as arguments                           *)

\* the artwork URLs the modelled catalog holds: one with the size token
\* 100x100, one without it
ArtworkUrls ==
    {"https://is1.example/image/100x100bb.jpg", "https://is1.example/image/cover.jpg"}

\* artwork_url.replace('100x100', '600x600') on the modelled URLs
replace_size(artwork_url) ==
    IF artwork_url = "https://is1.example/image/100x100bb.jpg"
    THEN "https://is1.example/image/600x600bb.jpg"
    ELSE artwork_url

\* _get_best_cover_url: '' when the entry has no artworkUrl100
get_best_cover_url(album) ==
    IF album.artworkUrl100 = None THEN ""
    ELSE IF album.artworkUrl100[1] # "" THEN replace_size(album.artworkUrl100[1])
    ELSE ""

\* _search_albums: data.get('results', []), and [] for any exception
search_albums(response) == IF response.ok THEN response.entries ELSE <<>>

\* the loop of _search_album_direct and _search_artist_albums from entry i
\* on: the first album whose name matches with an accepted confidence
RECURSIVE scan_albums(_, _, _, _)
scan_albums(albums, i, expected_album, accepted) ==
    IF i > Len(albums) THEN AdapterFailure(None)
    ELSE LET match == album_names_match(albums[i].collectionName, expected_album)
         IN  IF match[1] /\ match[2] \in accepted
             THEN AdapterSuccess(get_best_cover_url(albums[i]), match[2])
             ELSE scan_albums(albums, i + 1, expected_album, accepted)

\* ITunesRetriever._search_album_direct
ITunes_search_album_direct(metadata, catalog) ==
    IF ~Truthy(metadata.album) THEN AdapterFailure(None)
    ELSE scan_albums(search_albums(catalog.direct), 1, metadata.album[1],
                     {"exact", "partial", "word_overlap"})

\* a mutant of _search_artist_albums: no artist_match_only fallback
ITunes_search_artist_albums_without_fallback(metadata, catalog) ==
    scan_albums(search_albums(catalog.artist), 1,
                IF Truthy(metadata.album) THEN metadata.album[1] ELSE <<>>,
                MatchConfidences)

\* ITunesRetriever._search_artist_albums: the first matching album, else the
\* first album as artist_match_only
ITunes_search_artist_albums(metadata, catalog) ==
    LET albums == search_albums(catalog.artist)
        scan == scan_albums(albums, 1,
                            IF Truthy(metadata.album) THEN metadata.album[1] ELSE <<>>,
                            MatchConfidences)
    IN  IF scan.success THEN scan
        ELSE IF albums # <<>>
        THEN AdapterSuccess(get_best_cover_url(albums[1]), "artist_match_only")
        ELSE AdapterFailure(None)

\* ITunesRetriever.retrieve_cover: the steps tried, in order, and the result
ITunesRetriever_retrieve_cover(metadata, catalog) ==
    LET direct == ITunes_search_album_direct(metadata, catalog)
        artist == ITunes_search_artist_albums(metadata, catalog)
    IN  IF direct.success THEN [steps |-> <<"direct">>, result |-> direct]
        ELSE [steps |-> <<"direct", "artist">>,
              result |-> IF artist.success THEN artist
                         ELSE AdapterFailure(Some("No cover found via iTunes"))]

\* album entries of a search response: every album entity has a
\* collectionName; artworkUrl100 may be missing
AlbumEntries ==
    [collectionName : {<<"b">>, <<"c">>, <<"b", " ", "c">>},
     artworkUrl100 : {None} \cup {Some(u) : u \in ArtworkUrls}]

AlbumResponses ==
    {RequestFailed}
    \cup {Response(e) : e \in UNION {[1..n -> AlbumEntries] : n \in 0..MaxEntries}}

ITunesCatalog(direct, artist) == [direct |-> direct, artist |-> artist]

\* a call of ITunesRetriever.retrieve_cover
ITunesRetrieveCover(metadata, catalog) ==
    /\ adapter_call = None
    /\ adapter_call' = Some([op |-> "itunes.retrieve_cover", metadata |-> metadata,
                             catalog |-> catalog,
                             outcome |-> ITunesRetriever_retrieve_cover(
                                            metadata, catalog)])
    /\ UNCHANGED pipelineVars
    /\ UNCHANGED notAdapterVars

\* one call is followed: the adapter keeps no state between calls
NextITunes ==
    /\ adapter_call = None
    /\ \E direct \in AlbumResponses, artist \in AlbumResponses :
            ITunesRetrieveCover(AlbumMetadata, ITunesCatalog(direct, artist))

SpecITunes == Init /\ [][NextITunes]_vars

----------------------------------------------------------------------------
(* A direct call of AlbumCoverRetriever._download_cover_data *)

\* what the image host can answer a direct call: the responses of
\* HttpResponses and, besides, a declared length and a body of exactly the
\* maximum, and a second error status
CoverResponses ==
    HttpResponses
    \cup
    [exc : {""}, status : {200, 404, 500, 503},
     content_type : {None, Some("image/jpeg"), Some("Image/PNG"), Some("text/html")},
     content_length : {None, Some(Header(TRUE, MAX_COVER_FILE_SIZE)),
                       Some(Header(TRUE, MAX_COVER_FILE_SIZE + 1)),
                       Some(Header(FALSE, 0))},
     body : {1, MAX_COVER_FILE_SIZE, MAX_COVER_FILE_SIZE + 1}]

notDownloadVars == <<direct_call, tracks, existing_files, created, cache_calls,
                     match_call, clean_call, review, adapter_call, limiter,
                     progress_screen>>

\* _download_cover_data(url), the host answering with resp
DownloadCoverData(resp) ==
    /\ download_call = None
    /\ download_call' = Some([response |-> resp,
                              outcome |-> download_cover_data(resp)])
    /\ UNCHANGED pipelineVars
    /\ UNCHANGED notDownloadVars

\* one call is followed: the function keeps no state
NextDownload ==
    /\ download_call = None
    /\ \E resp \in CoverResponses : DownloadCoverData(resp)

SpecDownload == Init /\ [][NextDownload]_vars

-----------------------------------------------------------------------------
(* The rate limiter of one AudioDownloader, on an integer clock.  The        *)
(* downloader's jobs run one after the other in the worker thread, so the    *)
(* calls of _apply_rate_limit never overlap.                                 *)

MaxClock == 9
MaxFetches == 3

RateLimitDelays == {1, 2, 3}

(* time.sleep suspends for at least the time asked, possibly longer. *)
Oversleep == {0, 1}

sleep_never(current_time, last_request_time, rate_limit_delay) == 0

(* The time _apply_rate_limit asks time.sleep for; 0 stands for no sleep. *)
sleep_time(current_time, last_request_time, rate_limit_delay) ==
    LET time_since_last == current_time - last_request_time
    IN  IF time_since_last < rate_limit_delay
          THEN rate_limit_delay - time_since_last
          ELSE 0

notLimiterVars == <<direct_call, tracks, existing_files, created, cache_calls,
                    match_call, clean_call, review, adapter_call, download_call,
                    progress_screen>>

(* AudioDownloader.__init__: _last_request_time starts at 0.0. *)
AudioDownloader(rate_limit_delay, now) ==
    /\ limiter = None
    /\ limiter' = Some([rate_limit_delay   |-> rate_limit_delay,
                        clock              |-> now,
                        last_request_time  |-> 0,
                        fetches            |-> <<>>])
    /\ UNCHANGED pipelineVars
    /\ UNCHANGED notLimiterVars

(* Time passes outside the limiter: the fetch, the tagging, the event loop. *)
Elapse ==
    /\ limiter # None
    /\ limiter[1].clock < MaxClock
    /\ limiter' = Some([limiter[1] EXCEPT !.clock = @ + 1])
    /\ UNCHANGED pipelineVars
    /\ UNCHANGED notLimiterVars

(* _apply_rate_limit at the start of download_track_with_cache; the fetch    *)
(* begins when it returns.                                                   *)
ApplyRateLimit(oversleep) ==
    /\ limiter # None
    /\ Len(limiter[1].fetches) < MaxFetches
    /\ LET l == limiter[1]
           current_time == l.clock
           asked == sleep_time(current_time, l.last_request_time, l.rate_limit_delay)
           woke == IF asked > 0 THEN current_time + asked + oversleep ELSE current_time
       IN  /\ woke <= MaxClock
           /\ asked = 0 => oversleep = 0
           /\ limiter' = Some([l EXCEPT
                  !.clock = woke,
                  !.last_request_time = woke,
                  !.fetches = Append(@, [called     |-> current_time,
                                         previous   |-> l.last_request_time,
                                         sleep_time |-> asked,
                                         released   |-> woke])])
    /\ UNCHANGED pipelineVars
    /\ UNCHANGED notLimiterVars

NextLimiter ==
    \/ \E rate_limit_delay \in RateLimitDelays, now \in 0 .. 1 :
           AudioDownloader(rate_limit_delay, now)
    \/ Elapse
    \/ \E oversleep \in Oversleep : ApplyRateLimit(oversleep)

SpecLimiter == Init /\ [][NextLimiter]_vars

-----------------------------------------------------------------------------
(* DownloadProgressScreen (ui/download_progress_screen.py), driven by the   *)
(* progress callback of DownloadPipeline.download.  The callback goes       *)
(* through app.call_from_thread, which blocks the worker until the handler  *)
(* has run, so the handler reads the job's status as the worker left it.    *)

MaxScreenJobs == 4

\* what the fetch and tag step leaves in a job: its status and its error
JobResults ==
    {[status |-> "completed", error |-> None],
     [status |-> "error", error |-> Some("ERROR: unable to download video")],
     [status |-> "error", error |-> Some("ERROR: video unavailable")]}

LogLine(kind, i, total, error) ==
    [kind |-> kind, index |-> i, total |-> total, error |-> error]

\* _handle_progress_update(index, total, job) on the screen's fields
handle_progress_update(screen, i, total, job) ==
    IF job.status = "pending"
    THEN [screen EXCEPT !.log_widget = Append(@, LogLine("Starting", i, total, None))]
    ELSE [screen EXCEPT
            !.log_widget =
                IF job.status = "completed"
                THEN Append(@, LogLine("Finished", i, total, None))
                ELSE Append(@, LogLine("Failed", i, total, job.error)),
            !.completed = @ + 1,
            !.progress = @ + 1]

notProgressVars == <<direct_call, tracks, existing_files, created, cache_calls,
                     match_call, clean_call, review, adapter_call, download_call,
                     limiter>>

\* __init__ and on_mount: the screen of a batch of freshly created jobs, its
\* download about to start (download returns at once for an empty batch)
DownloadProgressScreen(n) ==
    /\ progress_screen = None
    /\ progress_screen' =
          Some([jobs       |-> [k \in 1..n |-> [status |-> "pending", error |-> None]],
                total      |-> n,
                progress   |-> 0,
                log_widget |-> <<>>,
                completed  |-> 0,
                index      |-> 1,
                step       |-> IF n = 0 THEN "dismissed" ELSE "start_job"])
    /\ UNCHANGED pipelineVars
    /\ UNCHANGED notProgressVars

\* _run_download: the job is marked in_progress and the callback is called
ProgressStartJob ==
    /\ progress_screen # None
    /\ progress_screen[1].step = "start_job"
    /\ LET s == progress_screen[1]
           job == [s.jobs[s.index] EXCEPT !.status = "in_progress"]
           marked == [s EXCEPT !.jobs[s.index] = job, !.step = "run_job"]
       IN  progress_screen' = Some(handle_progress_update(marked, s.index, s.total, job))
    /\ UNCHANGED pipelineVars
    /\ UNCHANGED notProgressVars

\* _run_download: download_track_with_cache has left the job completed or
\* error, and the callback is called again; after the last job download
\* returns and the screen is dismissed
ProgressRunJob(result) ==
    /\ progress_screen # None
    /\ progress_screen[1].step = "run_job"
    /\ LET s == progress_screen[1]
           job == [s.jobs[s.index] EXCEPT !.status = result.status,
                                          !.error = result.error]
           ran == [s EXCEPT !.jobs[s.index] = job,
                            !.index = @ + 1,
                            !.step = IF s.index = s.total THEN "dismissed"
                                     ELSE "start_job"]
       IN  progress_screen' = Some(handle_progress_update(ran, s.index, s.total, job))
    /\ UNCHANGED pipelineVars
    /\ UNCHANGED notProgressVars

NextProgress ==
    \/ \E n \in 0..MaxScreenJobs : DownloadProgressScreen(n)
    \/ ProgressStartJob
    \/ \E result \in JobResults : ProgressRunJob(result)

SpecProgress == Init /\ [][NextProgress]_vars

----------------------------------------------------------------------------
(* Properties of the download pipeline *)

\* one download call has ended, by returning or by raising
Ended == pc \in {"returned", "raised"}

Terminal(status) == status \in {"completed", "error"}

\* the normalized (artist, album) pair of a metadata record with both fields:
\* each field trimmed and lower-cased
NormalizedPair(metadata) ==
    <<Lower(Strip(metadata.artist)), Lower(Strip(metadata.album[1]))>>

\* the invocations of the cascade, in this run, for metadata of one pair
InvocationsOf(pair) ==
    {i \in 1..Len(cascade_log) :
        /\ HasArtistAndAlbum(cascade_log[i].metadata)
        /\ NormalizedPair(cascade_log[i].metadata) = pair}

\* C1: within one download run (pre-warm and execution), the cascade is
\* invoked at most once for each normalized (artist, album) pair, however
\* many jobs of the batch share the pair.
C1_OneCascadePerNormalizedPair ==
    \A i \in 1..Len(cascade_log) :
        HasArtistAndAlbum(cascade_log[i].metadata)
            => Cardinality(InvocationsOf(NormalizedPair(cascade_log[i].metadata))) <= 1

\* C2: no failure inside cover resolution aborts a download job: download
\* never ends by an exception, and every job whose fetch succeeded is
\* completed with a successful outcome.
C2_CoverFailureNeverAborts ==
    /\ pc # "raised"
    /\ \A k \in 1..Len(fetch_log) :
         fetch_log[k] = None
            => /\ jobs[k].status = "completed"
               /\ k <= Len(outcomes) /\ outcomes[k].success

\* C3: retrieve_cover never propagates an exception to its caller: every
\* call returns a CoverResult, whatever the remote services do.
C3_RetrieveCoverNeverRaises ==
    direct_call # None => ~direct_call[1].outcome.raised

\* C4: download returns exactly one DownloadOutcome per input job, in input
\* order, and never raises because a job failed: a download call that has
\* ended has returned, with one outcome per job, and the failure of job k is
\* recorded as success = false with its error in the k-th outcome.
C4_OneOutcomePerJob ==
    /\ Ended =>
         /\ pc = "returned"
         /\ Len(outcomes) = Len(jobs)
         /\ Len(fetch_log) = Len(jobs)
    /\ \A k \in 1..Len(fetch_log) :
         /\ k <= Len(outcomes)
         /\ outcomes[k].job = k
         /\ outcomes[k].success = (fetch_log[k] = None)
         /\ outcomes[k].error = fetch_log[k]

----------------------------------------------------------------------------
(* Properties of one retrieve_cover call *)

\* the metadata carries an authoritative hint and its download returned bytes
HintDownloaded ==
    /\ direct_call # None
    /\ TruthyUrl(direct_call[1].metadata.youtube_album_cover_url)
    /\ ~direct_call[1].hint_download.raised
    /\ direct_call[1].hint_download.data # None

\* the call returned the hint's cover and called no catalog adapter
HintResult ==
    /\ ~direct_call[1].outcome.raised
    /\ direct_call[1].outcome.result[1].success
    /\ direct_call[1].outcome.result[1].source = Some("youtube")
    /\ direct_call[1].outcome.result[1].album_match_confidence = "exact"
    /\ direct_call[1].outcome.result[1].cover_data = direct_call[1].hint_download.data
    /\ direct_call[1].outcome.adapters = <<>>

\* C5 as stated: whenever the hint's download succeeds and validates, the
\* result is the hint's cover (source youtube, confidence exact) and no
\* catalog adapter is called.
C5_HintAlwaysWins == HintDownloaded => HintResult

\* C5, amended: whenever the hint's download succeeds, validates and yields
\* at least one byte, the result is the hint's cover (source youtube,
\* confidence exact) and no catalog adapter is called, whatever the artist
\* and album are.
C5_NonEmptyHintWins ==
    (HintDownloaded /\ direct_call[1].hint_download.data[1] > 0) => HintResult

\* C5 witness: a hint with a non-empty image on a record without an artist
C5_Witness ==
    /\ HintDownloaded
    /\ direct_call[1].hint_download.data[1] > 0
    /\ direct_call[1].metadata.artist = <<>>
    /\ HintResult

----------------------------------------------------------------------------
(* Properties of the download pipeline, continued *)

\* a failed CoverResult carries no bytes; a successful one carries at least
\* one byte and a source tag
WellFormedCoverResult(r) ==
    /\ ~r.success => r.cover_data = None
    /\ r.success => /\ r.cover_data # None
                    /\ r.cover_data[1] > 0
                    /\ r.source # None

\* C6: every CoverResult the cascade returns or the Cover Cache stores has
\* no image bytes when success = false, and non-empty image bytes and a
\* source tag when success = true.
C6_CoverResultWellFormed ==
    /\ \A i \in 1..Len(cascade_log) :
         ~cascade_log[i].raised => WellFormedCoverResult(cascade_log[i].result[1])
    /\ \A k \in DOMAIN cover_cache : WellFormedCoverResult(cover_cache[k])

\* C6 witness: the cache holds a failed result and a successful one
C6_Witness ==
    /\ \E k \in DOMAIN cover_cache : ~cover_cache[k].success
    /\ \E k \in DOMAIN cover_cache : cover_cache[k].success

\* C7: for a batch of N jobs run with a progress callback, the callback is
\* invoked exactly 2N times: for job i with (i, N, job) while in_progress,
\* then with (i, N, job) in its final status, job i before job i+1.
C7_TwoCallbacksPerJob ==
    (Ended /\ progress_callback) =>
        /\ Len(events) = 2 * Len(jobs)
        /\ \A i \in 1..Len(jobs) :
             /\ events[2 * i - 1] = ProgressEvent(i, Len(jobs), "in_progress")
             /\ events[2 * i] = ProgressEvent(i, Len(jobs), jobs[i].status)
             /\ Terminal(jobs[i].status)

\* a job's status moves only pending -> in_progress -> completed | error
StatusStep(old, new) ==
    \/ new = old
    \/ old = "pending" /\ new = "in_progress"
    \/ old = "in_progress" /\ Terminal(new)

\* C8: within one download run a job's status only moves pending ->
\* in_progress -> (completed | error); when download returns every job is
\* completed or error, and job.error is set exactly when the status is error.
C8_StatusLifecycle ==
    /\ [][\A k \in 1..Len(jobs) :
            k <= Len(jobs') /\ StatusStep(jobs[k].status, jobs'[k].status)]_vars
    /\ [](pc = "returned" =>
            \A k \in 1..Len(jobs) :
                /\ Terminal(jobs[k].status)
                /\ (jobs[k].error # None) <=> (jobs[k].status = "error"))

\* C8 witness: download has returned with a failed and a completed job
C8_Witness ==
    /\ pc = "returned"
    /\ \E k \in 1..Len(jobs) : jobs[k].status = "error" /\ jobs[k].error # None
    /\ \E k \in 1..Len(jobs) : jobs[k].status = "completed"

\* C9: the batch continues after a job-level failure: once the fetch of a
\* job k has failed, every job of the batch eventually reaches a terminal
\* status (so jobs k+1..N are attempted).
C9_BatchContinues ==
    (\E k \in 1..Len(fetch_log) : fetch_log[k] # None)
        ~> (\A j \in 1..Len(jobs) : Terminal(jobs[j].status))

\* C9 witness: the first job failed and the second was run to completion
C9_Witness ==
    /\ Len(jobs) = 2
    /\ Len(fetch_log) = 2
    /\ fetch_log[1] # None
    /\ jobs[1].status = "error"
    /\ jobs[2].status = "completed"

----------------------------------------------------------------------------
(* Properties of create_download_jobs *)

\* the track has no source identifier: source_url is None or empty
LacksSource(metadata) == metadata.source_url = None \/ metadata.source_url = Some("")

\* C10: create_download_jobs raises ValueError, and so returns no jobs,
\* whenever some selected track lacks a source identifier; when only
\* unselected tracks lack one, it does not raise.
C10_MissingSourceRaises ==
    created # None =>
        LET outcome == created[1].outcome
        IN  IF \E i \in 1..Len(tracks) : tracks[i].selected /\ LacksSource(tracks[i])
            THEN outcome.raised /\ outcome.exc = Some("ValueError")
                 /\ outcome.value = None
            ELSE ~outcome.raised /\ outcome.value # None

\* a call that passed over an unselected track without a source and then
\* raised at a selected track without one
C10_Witness ==
    /\ created # None
    /\ created[1].outcome.raised
    /\ Len(tracks) = 2
    /\ ~tracks[1].selected /\ LacksSource(tracks[1])
    /\ tracks[2].selected /\ LacksSource(tracks[2])

\* the selected tracks, in input order
SelectedTracks == SelectSeq(tracks, LAMBDA t : t.selected)

\* the jobs the (first) call returned
CreatedJobs == created[1].outcome.value[1]

\* the call has returned a job list
JobsReturned == created # None /\ ~created[1].outcome.raised

\* C11: when every selected track has a source identifier,
\* create_download_jobs returns exactly one job per selected track, in input
\* order, each with status pending and the track's source identifier and
\* metadata, and no job for an unselected track.
C11_OneJobPerSelectedTrack ==
    (created # None /\ \A i \in 1..Len(tracks) :
                            tracks[i].selected => ~LacksSource(tracks[i]))
        => /\ ~created[1].outcome.raised
           /\ Len(CreatedJobs) = Len(SelectedTracks)
           /\ \A i \in 1..Len(SelectedTracks) :
                /\ CreatedJobs[i].metadata = SelectedTracks[i]
                /\ Some(CreatedJobs[i].url) = SelectedTracks[i].source_url
                /\ CreatedJobs[i].status = "pending"

\* C11 witness: an unselected track without a source, then a selected one
\* with a source, gave the one job of the selected track
C11_Witness ==
    /\ JobsReturned
    /\ Len(tracks) = 2
    /\ ~tracks[1].selected /\ LacksSource(tracks[1])
    /\ tracks[2].selected
    /\ Len(CreatedJobs) = 1
    /\ CreatedJobs[1].metadata = tracks[2]

\* C12: in a batch built by one create_download_jobs call the output paths
\* are pairwise distinct, and none names a file that existed when the batch
\* was built, also when several tracks render to the same filename.
C12_OutputPathsUnique ==
    JobsReturned =>
        /\ \A i, j \in 1..Len(CreatedJobs) :
                i # j => CreatedJobs[i].output_path # CreatedJobs[j].output_path
        /\ \A i \in 1..Len(CreatedJobs) :
                CreatedJobs[i].output_path \notin existing_files

\* C12 witness: two tracks that render to the same filename, which is also
\* the name of an existing file
C12_Witness ==
    /\ JobsReturned
    /\ Len(CreatedJobs) = 2
    /\ create_output_path(CreatedJobs[1].metadata, <<>>)
            = create_output_path(CreatedJobs[2].metadata, <<>>)
    /\ CreatedJobs[1].metadata.title # CreatedJobs[2].metadata.title
    /\ \E f \in existing_files :
            PathName(f) = PathName(create_output_path(CreatedJobs[1].metadata, <<>>))
                /\ f # CreatedJobs[1].output_path
                /\ SubSeq(f, 1, Len(f) - 1)
                      = SubSeq(CreatedJobs[1].output_path, 1, Len(f) - 1)

\* the largest suffix a batch of the model can need: every job and every
\* existing file may hold one numbered name
MaxSuffix == MaxJobs + 3

\* the directory of job i's output path, and the path the job asked for
JobDir(i) == SubSeq(CreatedJobs[i].output_path, 1, Len(CreatedJobs[i].output_path) - 1)

RequestedPath(i) == create_output_path(CreatedJobs[i].metadata, JobDir(i))

\* the name is taken when job i is resolved: an earlier job of the batch has
\* it, or a file of that name exists in the directory
Taken(i, name) ==
    \/ \E j \in 1..(i - 1) : PathName(CreatedJobs[j].output_path) = name
    \/ Append(JobDir(i), name) \in existing_files

\* "stem (n).mp3" for the requested name "stem.mp3"
Suffixed(requested, n) ==
    SubSeq(requested, 1, Len(requested) - 4)
        \o <<" ", "(">> \o DecimalString(n) \o <<")", ".", "m", "p", "3">>

\* C13: collision resolution picks the smallest unused suffix: when the
\* requested name is taken in the batch or on the filesystem, the resolved
\* name is "stem (n).ext" for the least n >= 1 whose name is neither used in
\* the batch nor present on the filesystem; with "a - s.mp3" and
\* "a - s (1).mp3" existing, a request for "a - s.mp3" gives "a - s (2).mp3".
C13_SmallestUnusedSuffix ==
    JobsReturned =>
        /\ \A i \in 1..Len(CreatedJobs) :
             LET requested == PathName(RequestedPath(i))
                 resolved == PathName(CreatedJobs[i].output_path)
             IN  Taken(i, requested) =>
                    \E n \in 1..MaxSuffix :
                        /\ resolved = Suffixed(requested, n)
                        /\ ~Taken(i, resolved)
                        /\ \A m \in 1..(n - 1) : Taken(i, Suffixed(requested, m))
        /\ (/\ Len(CreatedJobs) >= 1
            /\ PathName(RequestedPath(1)) = <<"a", " ", "-", " ", "s", ".", "m", "p", "3">>
            /\ Taken(1, <<"a", " ", "-", " ", "s", ".", "m", "p", "3">>)
            /\ Taken(1, <<"a", " ", "-", " ", "s", " ", "(", "1", ")", ".", "m", "p", "3">>))
           => PathName(CreatedJobs[1].output_path)
                = <<"a", " ", "-", " ", "s", " ", "(", "2", ")", ".", "m", "p", "3">>

\* C13 witness: "a - s.mp3" and "a - s (1).mp3" exist, and two tracks that
\* ask for "a - s.mp3" were given "a - s (2).mp3" and "a - s (3).mp3"
C13_Witness ==
    /\ JobsReturned
    /\ Len(CreatedJobs) = 2
    /\ Taken(1, <<"a", " ", "-", " ", "s", ".", "m", "p", "3">>)
    /\ Taken(1, <<"a", " ", "-", " ", "s", " ", "(", "1", ")", ".", "m", "p", "3">>)
    /\ PathName(CreatedJobs[1].output_path)
         = <<"a", " ", "-", " ", "s", " ", "(", "2", ")", ".", "m", "p", "3">>
    /\ PathName(CreatedJobs[2].output_path)
         = <<"a", " ", "-", " ", "s", " ", "(", "3", ")", ".", "m", "p", "3">>

\* the output paths of the jobs a call returned, in order
OutputPaths(call) ==
    [i \in 1..Len(call.outcome.value[1]) |-> call.outcome.value[1][i].output_path]

----------------------------------------------------------------------------
(* Properties of the Cover Cache *)

\* the calls made since the last clear
SinceClear ==
    {k \in 1..Len(cache_calls) :
        \A c \in k..Len(cache_calls) : cache_calls[c].op = "set"}

\* the set calls since the last clear whose pair is (artist, album) after
\* trimming and lower-casing each field
MatchingSets(artist, album) ==
    {k \in SinceClear :
        /\ Lower(Strip(cache_calls[k].artist)) = Lower(Strip(artist))
        /\ Lower(Strip(cache_calls[k].album)) = Lower(Strip(album))}

\* what a map keyed by the normalized pair answers
MapAnswer(artist, album) ==
    IF MatchingSets(artist, album) = {} THEN None
    ELSE cache_calls[CHOOSE k \in MatchingSets(artist, album) :
                        \A j \in MatchingSets(artist, album) : j <= k].cover_result

\* C15: the Cover Cache is a map keyed by the normalized pair: after any
\* sequence of set and clear calls, get(artist, album) returns the result of
\* the most recent set since the last clear whose artist and album equal
\* the asked ones after trimming and lower-casing each field, and absent
\* when there is none.
C15_CacheIsNormalizedMap ==
    \A artist \in CacheArtists, album \in CacheAlbums :
        get_cover(cover_cache, artist, album) = MapAnswer(artist, album)

----------------------------------------------------------------------------
(* Properties of the Album Name Matcher *)

\* the text of the name that precedes its first "(" or "[", trimmed
BeforeFirstBracket(name) ==
    LET at == {i \in 1..Len(name) : name[i] \in {"(", "["}}
    IN  IF at = {} THEN Strip(name)
        ELSE Strip(SubSeq(name, 1, (CHOOSE i \in at : \A j \in at : i <= j) - 1))

\* the normalized name of the comparison: trimmed, cut at the first bracket,
\* lower-cased
NormalizedName(name) == Lower(BeforeFirstBracket(name))

\* the reference decision list, in its order
ReferenceMatch(candidate, expected) ==
    LET a == NormalizedName(candidate)
        b == NormalizedName(expected)
        common == Cardinality(SplitWords(a) \cap SplitWords(b))
        most == Max(Cardinality(SplitWords(a)), Cardinality(SplitWords(b)))
    IN  IF expected = <<>> THEN <<TRUE, "no_album_expected">>
        ELSE IF a = b THEN <<TRUE, "exact">>
        ELSE IF Contains(a, b) \/ Contains(b, a) THEN <<TRUE, "partial">>
        ELSE IF most > 0 /\ 2 * common >= most THEN <<TRUE, "word_overlap">>
        ELSE <<FALSE, "no_match">>

MatchCalled == match_call # None /\ match_call[1].op = "album_names_match"

NormalizeCalled == match_call # None /\ match_call[1].op = "normalize_album_name"

\* C16: album_names_match(candidate, expected) equals the reference
\* decision list: expected empty -> (true, no_album_expected); normalized
\* names equal -> (true, exact); one contains the other -> (true, partial);
\* word overlap of at least one half -> (true, word_overlap); otherwise
\* (false, no_match).  A ratio of exactly one half is a match.
C16_MatchesReferenceList ==
    MatchCalled =>
        match_call[1].result
            = ReferenceMatch(match_call[1].returned_album, match_call[1].expected_album)

\* C16 witness: "a b" against "a c": one common word of two, a word overlap
C16_Witness ==
    /\ MatchCalled
    /\ match_call[1].returned_album = <<"a", " ", "b">>
    /\ match_call[1].expected_album = <<"a", " ", "c">>
    /\ match_call[1].result = <<TRUE, "word_overlap">>

C18_NormalizeCutsAtBracket ==
    NormalizeCalled =>
        /\ match_call[1].result = BeforeFirstBracket(match_call[1].album_name)
        /\ normalize_album_name(match_call[1].result) = match_call[1].result

\* C18 witness: " a b [c] " normalizes to "a b"
C18_Witness ==
    /\ NormalizeCalled
    /\ match_call[1].album_name = <<" ", "a", " ", "b", " ", "[", "c", "]", " ">>
    /\ match_call[1].result = <<"a", " ", "b">>

----------------------------------------------------------------------------
(* Properties of metadata cleaning *)

\* the number when it lies within lo..hi, absent otherwise
WithinOrAbsent(n, lo, hi) ==
    IF n # None /\ lo <= n[1] /\ n[1] <= hi THEN n ELSE None

\* the trimmed text, or the default when nothing is left
TrimmedOr(text, default) == IF Strip(text) = <<>> THEN default ELSE Strip(text)

\* C19: clean_track returns a record whose year is absent unless within
\* 1900..2100, whose track_number and total_tracks are absent unless within
\* 1..999, whose title and artist are trimmed and replaced by "Unknown
\* Title" / "Unknown Artist" when empty, whose album is trimmed or absent,
\* and whose genre is the configured default when absent; year 1899,
\* track_number 0 and artist "" give year absent, track_number absent and
\* artist "Unknown Artist".
C19_CleanTrackRanges ==
    clean_call # None =>
        LET raw == clean_call[1].metadata
            cleaned == clean_call[1].cleaned
        IN  /\ cleaned.year = WithinOrAbsent(raw.year, 1900, 2100)
            /\ cleaned.track_number = WithinOrAbsent(raw.track_number, 1, 999)
            /\ cleaned.total_tracks = WithinOrAbsent(raw.total_tracks, 1, 999)
            /\ cleaned.title = TrimmedOr(raw.title, UnknownTitle)
            /\ cleaned.artist = TrimmedOr(raw.artist, UnknownArtist)
            /\ cleaned.album =
                    IF raw.album = None \/ Strip(raw.album[1]) = <<>> THEN None
                    ELSE Some(Strip(raw.album[1]))
            /\ raw.genre = None => cleaned.genre = clean_call[1].default_genre
            /\ (raw.year = Some(1899) /\ raw.track_number = Some(0)
                    /\ raw.artist = <<>>)
                => /\ cleaned.year = None
                   /\ cleaned.track_number = None
                   /\ cleaned.artist = UnknownArtist

\* C19 witness: the cleaned copy of a track with year 1899, track_number 0,
\* artist "", a padded title and album, no genre and a default genre
C19_Witness ==
    /\ clean_call # None
    /\ clean_call[1].metadata.year = Some(1899)
    /\ clean_call[1].metadata.track_number = Some(0)
    /\ clean_call[1].metadata.total_tracks = Some(2)
    /\ clean_call[1].metadata.artist = <<>>
    /\ clean_call[1].metadata.title = <<" ", "t", " ">>
    /\ clean_call[1].metadata.album = Some(<<" ", "b">>)
    /\ clean_call[1].metadata.genre = None
    /\ clean_call[1].cleaned.year = None
    /\ clean_call[1].cleaned.track_number = None
    /\ clean_call[1].cleaned.total_tracks = Some(2)
    /\ clean_call[1].cleaned.title = <<"t">>
    /\ clean_call[1].cleaned.album = Some(<<"b">>)
    /\ clean_call[1].cleaned.genre = Some(<<"d">>)

----------------------------------------------------------------------------
(* Properties of the cascade with artist and album known *)

\* the call's metadata has an artist and an album, and no authoritative hint
\* gave a validated, non-empty image
AlbumKnownWithoutHint ==
    /\ direct_call # None
    /\ HasArtistAndAlbum(direct_call[1].metadata)
    /\ ~(HintDownloaded /\ direct_call[1].hint_download.data[1] > 0)

\* C20: with artist and album known and no successful authoritative hint,
\* the cascade tries the primary adapter first and the secondary adapter
\* only after it; a success carries the source tag of the adapter whose
\* artwork was downloaded and validated, and when neither adapter yields a
\* validated download the result is the failure "no album cover found"
\* with confidence none.
C20_PrimaryThenSecondary ==
    AlbumKnownWithoutHint =>
        LET outcome == direct_call[1].outcome
        IN  /\ ~outcome.raised
            /\ outcome.adapters \in
                    {<<"musicbrainz.retrieve_cover">>,
                     <<"musicbrainz.retrieve_cover", "itunes.retrieve_cover">>}
            /\ outcome.result[1].success =>
                    /\ TruthyBytes(outcome.result[1].cover_data)
                    /\ outcome.result[1].source =
                          IF Len(outcome.adapters) = 1 THEN Some("musicbrainz")
                          ELSE Some("itunes")
            /\ ~outcome.result[1].success =>
                    /\ outcome.result[1].error =
                          Some("No album cover found from MusicBrainz or iTunes")
                    /\ outcome.result[1].album_match_confidence = "none"

----------------------------------------------------------------------------
(* Properties of the cascade without an album *)

TrackOnlyAdapters ==
    <<"musicbrainz.retrieve_cover_for_recording", "itunes.retrieve_cover_for_track">>

\* the call's metadata has an artist and a title, no album and no
\* authoritative cover URL
ArtistAndTitleOnly ==
    /\ direct_call # None
    /\ direct_call[1].metadata.artist # <<>>
    /\ direct_call[1].metadata.title # <<>>
    /\ ~Truthy(direct_call[1].metadata.album)
    /\ direct_call[1].metadata.youtube_album_cover_url = None

\* C21: for a track with artist and title but no album the cascade tries
\* track-only resolution only, the primary adapter's recording search and
\* then the secondary adapter's track search, makes no album-based catalog
\* call, and the result's confidence is one of track_only, recording_match
\* and none.
C21_TrackOnlyResolution ==
    ArtistAndTitleOnly =>
        LET outcome == direct_call[1].outcome
        IN  /\ ~outcome.raised
            /\ outcome.adapters \in
                    {SubSeq(TrackOnlyAdapters, 1, 1), TrackOnlyAdapters}
            /\ outcome.result[1].album_match_confidence \in
                    {"track_only", "recording_match", "none"}

----------------------------------------------------------------------------
(* Properties of batches whose jobs share a pair *)

\* jobs i and j are two jobs of the batch with the same artist and album
SharePair(i, j) ==
    /\ i # j
    /\ HasArtistAndAlbum(jobs[i].metadata)
    /\ jobs[i].metadata.artist = jobs[j].metadata.artist
    /\ jobs[i].metadata.album = jobs[j].metadata.album

\* the invocations of the cascade, in this run, for the pair of job i
InvocationsForJob(i) ==
    {n \in 1..Len(cascade_log) :
        /\ cascade_log[n].metadata.artist = jobs[i].metadata.artist
        /\ cascade_log[n].metadata.album = jobs[i].metadata.album}

----------------------------------------------------------------------------
(* Properties of the cascade without an artist *)

\* the call's metadata has no artist, and no authoritative hint gave an
\* image: there is no hint URL, or its download yielded no image
NoArtistNoHintImage ==
    /\ direct_call # None
    /\ direct_call[1].metadata.artist = <<>>
    /\ \/ ~TruthyUrl(direct_call[1].metadata.youtube_album_cover_url)
       \/ ~TruthyBytes(direct_call[1].hint_download.data)

\* C23: when no authoritative hint is present, or the hint's download yields
\* no image, and the artist is empty, resolution fails at once with "No
\* artist name provided" and confidence none, without calling any catalog
\* adapter, whether or not an album is known.
C23_NoArtistFailsAtOnce ==
    NoArtistNoHintImage =>
        LET outcome == direct_call[1].outcome
        IN  /\ ~outcome.raised
            /\ outcome.adapters = <<>>
            /\ ~outcome.result[1].success
            /\ outcome.result[1].error = Some("No artist name provided")
            /\ outcome.result[1].album_match_confidence = "none"

----------------------------------------------------------------------------
(* Properties of the bulk edit *)

\* C24: a bulk edit keeps the current value of every field left blank:
\* after applying a bulk edit in which the album, genre or year input is
\* blank, every selected track keeps its previous value of that field, and
\* the unselected tracks are unchanged in all fields.
C24_BlankFieldsKeepValues ==
    (review # None /\ review[1].applied # None) =>
        LET typed == review[1].applied[1]
            before == typed.before
            after == review[1].tracks
        IN  \A idx \in 1..Len(before) :
                IF before[idx].selected
                THEN /\ Strip(typed.album) = <<>> => after[idx].album = before[idx].album
                     /\ Strip(typed.genre) = <<>> => after[idx].genre = before[idx].genre
                     /\ Strip(typed.year) = <<>> => after[idx].year = before[idx].year
                ELSE after[idx] = before[idx]

----------------------------------------------------------------------------
(* Properties of the two phases of download *)

\* a pre-warm cascade is still pending: a collected pair is not yet resolved
PreWarmPending == unique_albums # <<>>

\* C25: in every download run all pre-warm cascade lookups complete before
\* the fetch of any job begins: while a pre-warm cascade is still pending no
\* job is marked in_progress, and no fetch and no progress callback has
\* happened.
C25_PreWarmBeforeAnyFetch ==
    PreWarmPending =>
        /\ \A k \in 1..Len(jobs) : jobs[k].status = "pending"
        /\ fetch_log = <<>>
        /\ events = <<>>
        /\ outcomes = <<>>
        /\ \A n \in 1..Len(cascade_log) : cascade_log[n].phase = "prewarm"

\* C25 witness: with two pairs to resolve and a progress callback, the first
\* pair is resolved and the second is still pending
C25_Witness ==
    /\ pc = "prewarm"
    /\ progress_callback
    /\ Len(jobs) = 2
    /\ Len(cascade_log) = 1
    /\ Len(unique_albums) = 1
    /\ unique_albums[1].key = unique_key(jobs[2].metadata)

\* C26: the Cover Cache is written only during the pre-warm phase and is
\* read-only during the execution phase: once the pre-warm has completed, no
\* job's fetch and tag step adds or replaces a cache entry.
C26_CacheReadOnlyInExecution ==
    [][(pc \in {"start_job", "run_job"}) => (cover_cache' = cover_cache)]_vars

\* C26 witness: two jobs of different pairs have run to completion against
\* the two entries the pre-warm wrote, and both embedded the cached cover
C26_Witness ==
    /\ pc = "returned"
    /\ Len(jobs) = 2
    /\ Cardinality(DOMAIN cover_cache) = 2
    /\ \A n \in 1..Len(cascade_log) : cascade_log[n].phase = "prewarm"
    /\ \A k \in 1..2 : outcomes[k].success /\ outcomes[k].cover_success

\* the pre-warm invocations, in this run, for the pair of job k
PreWarmInvocationsForJob(k) ==
    {n \in InvocationsForJob(k) : cascade_log[n].phase = "prewarm"}

\* C27: the pre-warm phase carries forward any authoritative hint attached
\* to a pair's metadata: when some job of the batch with an uncached pair
\* carries an authoritative cover URL, the single cascade invocation for the
\* pair receives an authoritative cover URL of that pair, whatever the
\* position of the hinted job in the batch.
C27_PreWarmCarriesHint ==
    \A k \in 1..Len(jobs) :
        (/\ HasArtistAndAlbum(jobs[k].metadata)
         /\ TruthyUrl(jobs[k].metadata.youtube_album_cover_url))
            => \A n \in PreWarmInvocationsForJob(k) :
                 \E j \in 1..Len(jobs) :
                    /\ SharePair(j, k) \/ j = k
                    /\ TruthyUrl(jobs[j].metadata.youtube_album_cover_url)
                    /\ cascade_log[n].metadata.youtube_album_cover_url
                         = jobs[j].metadata.youtube_album_cover_url

----------------------------------------------------------------------------
(* Properties of the primary adapter *)

AlbumCallMade == adapter_call # None /\ adapter_call[1].op = "retrieve_cover"

\* what a step yields when a failure inside it counts as no result
StepResult(step) == IF step.raised THEN AdapterFailure(None) ELSE step.value[1]

\* C28: in the primary adapter's album resolution any network or parse
\* failure at a step (direct search, fuzzy search, recording search),
\* including a response entry that lacks an expected field, counts as no
\* result from that step and the next step is still attempted; the adapter
\* reports failure only if all three steps fail, and otherwise returns the
\* result of the earliest succeeding step.
C28_StepFailureFallsThrough ==
    AlbumCallMade =>
        LET metadata == adapter_call[1].metadata
            catalog == adapter_call[1].catalog
            outcome == adapter_call[1].outcome
            direct == StepResult(MusicBrainz_search_album_direct(metadata, catalog))
            fuzzy == StepResult(MusicBrainz_search_album_fuzzy(metadata, catalog))
            recording == MusicBrainz_search_recording(metadata, catalog)
        IN  IF direct.success
            THEN outcome.steps = <<"direct">> /\ outcome.result = direct
            ELSE IF fuzzy.success
            THEN outcome.steps = <<"direct", "fuzzy">> /\ outcome.result = fuzzy
            ELSE /\ outcome.steps = <<"direct", "fuzzy", "recording">>
                 /\ IF recording.success THEN outcome.result = recording
                    ELSE ~outcome.result.success

RecordingCallMade ==
    adapter_call # None /\ adapter_call[1].op = "retrieve_cover_for_recording"

\* the artwork URL of the recording's first release, None when the recording
\* has no release (no list, or an empty one), the release has no id, or the
\* archive has no artwork for it
RecordingArtwork(recording, cover_art) ==
    IF recording.releases = None THEN None
    ELSE IF recording.releases[1] = <<>> THEN None
    ELSE IF recording.releases[1][1].id = None THEN None
    ELSE get_cover_url(recording.releases[1][1].id[1], cover_art)

\* C29: the primary adapter's recording search returns, with confidence
\* recording_match, the first recording in response order that has an
\* associated release and a resolvable artwork URL; recordings without a
\* release (absent or empty release list) or without artwork are skipped and
\* do not stop the scan.
C29_FirstRecordingWithArtwork ==
    (RecordingCallMade /\ adapter_call[1].catalog.recordings.ok) =>
        LET recordings == adapter_call[1].catalog.recordings.entries
            cover_art == adapter_call[1].catalog.cover_art
            result == adapter_call[1].outcome.result
            usable == {i \in 1..Len(recordings) :
                          TruthyUrl(RecordingArtwork(recordings[i], cover_art))}
        IN  IF usable = {} THEN ~result.success
            ELSE LET first == CHOOSE i \in usable : \A j \in usable : i <= j
                 IN  /\ result.success
                     /\ result.album_match_confidence = "recording_match"
                     /\ result.cover_url = RecordingArtwork(recordings[first], cover_art)

----------------------------------------------------------------------------
(* Properties of the secondary adapter *)

ITunesCallMade == adapter_call # None /\ adapter_call[1].op = "itunes.retrieve_cover"

\* the albums of the response whose name matches the expected album with one
\* of the accepted confidences
MatchingAlbums(albums, expected_album, accepted) ==
    {i \in 1..Len(albums) :
        LET match == album_names_match(albums[i].collectionName, expected_album)
        IN  match[1] /\ match[2] \in accepted}

----------------------------------------------------------------------------
(* Properties of cover download validation *)

TenMiB == 10 * 1024 * 1024

\* the response is an answer with a success status
StatusSuccess(resp) == resp.exc = "" /\ resp.status >= 200 /\ resp.status < 300

\* the content-type header is present and names an image type
ImageType(resp) ==
    resp.content_type \in {Some("image/jpeg"), Some("Image/PNG")}

C32_FailureClasses ==
    download_call # None =>
        LET resp == download_call[1].response
            outcome == download_call[1].outcome
        IN  /\ (resp.exc \in {"Timeout", "ConnectionError"}
                    \/ (resp.exc = "" /\ resp.status = 404))
                => outcome = DownloadReturned(None)
            /\ (resp.exc = "" /\ resp.status >= 400 /\ resp.status # 404)
                => outcome.raised

\* C32 witness: a 503 answer with an image content type left the download
\* step as an exception
C32_Witness ==
    /\ download_call # None
    /\ download_call[1].response.status = 503
    /\ download_call[1].response.content_type = Some("image/jpeg")
    /\ download_call[1].outcome = DownloadRaised

-----------------------------------------------------------------------------
(* Properties of the rate limiter *)

ConsecutiveFetches ==
    IF limiter = None THEN {}
    ELSE {i \in 1 .. Len(limiter[1].fetches) : i > 1}

(* C33: for every two consecutive fetches of one downloader, the second     *)
(* begins at least the configured delay after the limiter released the      *)
(* first, and the worker is asked to sleep exactly the part of the delay    *)
(* that has not yet elapsed (nothing when the whole delay has elapsed).     *)
C33_MinimumDelayBetweenFetches ==
    \A i \in ConsecutiveFetches :
        LET l == limiter[1]
            first == l.fetches[i - 1]
            second == l.fetches[i]
            elapsed == second.called - first.released
        IN  /\ second.released - first.released >= l.rate_limit_delay
            /\ second.previous = first.released
            /\ second.sleep_time = IF elapsed < l.rate_limit_delay
                                     THEN l.rate_limit_delay - elapsed
                                     ELSE 0

C33_Witness ==
    \E i \in ConsecutiveFetches :
        /\ limiter[1].fetches[i].sleep_time > 0
        /\ limiter[1].fetches[i].sleep_time < limiter[1].rate_limit_delay

-----------------------------------------------------------------------------
(* Properties of the fields clean_track copies *)

(* C34: the cleaned copy of a track carries the same platform-supplied      *)
(* cover URL (youtube_album_cover_url), source_url, selected and duration   *)
(* as the track handed to clean_track.                                      *)
C34_CleanTrackKeepsCoverHint ==
    clean_call # None =>
        LET raw == clean_call[1].metadata
            cleaned == clean_call[1].cleaned
        IN  /\ cleaned.youtube_album_cover_url = raw.youtube_album_cover_url
            /\ cleaned.source_url = raw.source_url
            /\ cleaned.selected = raw.selected
            /\ cleaned.duration = raw.duration

-----------------------------------------------------------------------------
(* Properties of a pipeline used for several download calls *)

\* the step invokes the cascade once more
CascadeInvoked == Len(cascade_log') = Len(cascade_log) + 1

(* C35: once the Cover Cache holds a CoverResult, success or failure, for a *)
(* pair, no step of the same batch or of a later download call on the same  *)
(* pipeline invokes the cascade for metadata of that pair.                  *)
C35_CachedPairNeverResolvedAgain ==
    [][CascadeInvoked =>
         LET metadata == cascade_log'[Len(cascade_log')].metadata
         IN  HasArtistAndAlbum(metadata) =>
                get_cover(cover_cache, metadata.artist, metadata.album[1]) = None]_vars

-----------------------------------------------------------------------------
(* Properties of jobs without an (artist, album) pair *)

\* the job being executed has no album or no artist
RunningJobWithoutPair ==
    /\ pc = "run_job"
    /\ ~HasArtistAndAlbum(jobs[index].metadata)

\* the step leaves the cache alone and logs an execution-phase invocation of
\* the cascade for the metadata of the job being executed
OwnCascadeBypassingCache ==
    /\ cover_cache' = cover_cache
    /\ CascadeInvoked
    /\ cascade_log'[Len(cascade_log')].phase = "execution"
    /\ cascade_log'[Len(cascade_log')].metadata = jobs[index].metadata

\* no pair without artist or album is collected or resolved by the pre-warm
PreWarmSkipsJobsWithoutPair ==
    /\ \A e \in 1..Len(unique_albums) :
         unique_albums[e].key[1] # <<>> /\ unique_albums[e].key[2] # <<>>
    /\ \A n \in 1..Len(cascade_log) :
         cascade_log[n].phase = "prewarm" => HasArtistAndAlbum(cascade_log[n].metadata)

(* C36 as stated: jobs whose metadata has no album (or no artist) never     *)
(* touch the Cover Cache: the pre-warm skips them, the cascade is invoked   *)
(* once per such job during its own execution, and the result is never      *)
(* stored in the cache.                                                     *)
C36_NoPairJobsCascadeOnce ==
    /\ []PreWarmSkipsJobsWithoutPair
    /\ [][RunningJobWithoutPair => OwnCascadeBypassingCache]_vars

(* C36, amended: the pre-warm skips jobs without album or artist; the       *)
(* execution of such a job never changes the cache, and invokes the cascade *)
(* once, for the job's own metadata, when the job reaches the cover step    *)
(* (its outcome carries a cover result), and not at all when its fetch or   *)
(* its tagging raised before that.                                          *)
C36_NoPairJobsBypassCache ==
    /\ []PreWarmSkipsJobsWithoutPair
    /\ [][RunningJobWithoutPair =>
            /\ cover_cache' = cover_cache
            /\ Len(outcomes') = index
            /\ IF outcomes'[index].cover_confidence # None
               THEN OwnCascadeBypassingCache
               ELSE cascade_log' = cascade_log]_vars

\* C36 witness: a job with a pair and a job without album have both been
\* executed; the pre-warm resolved the one pair, the job without album had
\* its own cascade, and the cache holds the one pair only
C36_Witness ==
    /\ pc = "returned"
    /\ Len(jobs) = 2
    /\ HasArtistAndAlbum(jobs[1].metadata)
    /\ jobs[2].metadata.album = None
    /\ Len(cascade_log) = 2
    /\ cascade_log[1].phase = "prewarm"
    /\ cascade_log[2].phase = "execution"
    /\ cascade_log[2].metadata = jobs[2].metadata
    /\ outcomes[2].cover_success
    /\ Cardinality(DOMAIN cover_cache) = 1

-----------------------------------------------------------------------------
(* Properties of the outcomes download returns *)

(* C37: each DownloadOutcome is consistent with its job: outcome.success is *)
(* true exactly when the job's status is completed, outcome.error equals    *)
(* the job's error, and a failed outcome reports cover_success = false, no  *)
(* cover source and no cover confidence.                                    *)
C37_OutcomeConsistentWithJob ==
    \A k \in 1..Len(outcomes) :
        /\ outcomes[k].job = k
        /\ outcomes[k].success <=> (jobs[k].status = "completed")
        /\ outcomes[k].error = jobs[k].error
        /\ ~outcomes[k].success =>
              /\ ~outcomes[k].cover_success
              /\ outcomes[k].cover_source = None
              /\ outcomes[k].cover_confidence = None

\* C37 witness: download has returned a failed outcome carrying the job's
\* error and a successful outcome with an embedded cover
C37_Witness ==
    /\ pc = "returned"
    /\ Len(outcomes) = 2
    /\ ~outcomes[1].success
    /\ outcomes[1].error # None
    /\ jobs[1].status = "error"
    /\ outcomes[2].success
    /\ outcomes[2].cover_success
    /\ jobs[2].status = "completed"

-----------------------------------------------------------------------------
(* Properties of the download progress screen *)

(* C38: after a batch of N jobs has run, the screen's completed counter     *)
(* equals N and the progress bar was advanced exactly N times, and a job    *)
(* is logged as failed only when its final status is error.                 *)
C38_EachJobCountedOnce ==
    (progress_screen # None /\ progress_screen[1].step = "dismissed") =>
        LET s == progress_screen[1]
        IN  /\ s.completed = s.total
            /\ s.progress = s.total
            /\ \A n \in 1..Len(s.log_widget) :
                  s.log_widget[n].kind = "Failed"
                     => s.jobs[s.log_widget[n].index].status = "error"

-----------------------------------------------------------------------------
(* Properties of candidates whose title normalizes to nothing *)

(* C39: a candidate title that normalizes to the empty string (a title      *)
(* that begins with "(" or "[", say) is never reported as a match for a     *)
(* non-empty expected album whose normalized form is non-empty.             *)
C39_EmptyCandidateNeverMatches ==
    (match_call # None /\ match_call[1].op = "album_names_match") =>
        LET call == match_call[1]
        IN  (/\ normalize_album_name(Lower(call.returned_album)) = <<>>
             /\ call.expected_album # <<>>
             /\ normalize_album_name(Lower(call.expected_album)) # <<>>)
            => ~call.result[1]

====
